---- MODULE Spec2Model ----
(***************************************************************************)
(* A model of two subsystems of coreth:                                    *)
(*   - peer/network.go: the request/response network (threads, the        *)
(*     network lock, the activeAppRequests semaphore, the outstanding      *)
(*     request handlers, Shutdown);                                        *)
(*   - miner/worker.go: block assembly (applyTransaction,                  *)
(*     commitTransaction, commitBlobTransaction, commitTransactions,       *)
(*     commitNewWork).                                                     *)
(* SpecNet is the specification of the network, SpecWorker the one of the  *)
(* worker; each leaves the other subsystem's variables untouched.          *)
(***************************************************************************)
EXTENDS Integers, Sequences, FiniteSets, TLC

(***************************************************************************)
(* Bounds of the model.                                                    *)
(***************************************************************************)
\* capacity handed to NewNetwork (maxActiveAppRequests)
MaxActiveAppRequests == 1
\* number of SendAppRequest / SendAppRequestAny calls that reach the semaphore
MaxSends == 2
\* number of AppResponse / AppRequestFailed deliveries the bus makes in a behaviour
MaxDeliveries == 2
\* number of inbound AppRequest / AppGossip calls in a behaviour
MaxInbound == 1

\* the threads calling into the network
Threads == {"t1", "t2"}
\* node ids: this node, one remote node; EmptyNodeID is ids.EmptyNodeID
Self == "self"
EmptyNodeID == "empty"
NodeIDs == {Self, "A"}
\* application versions of peers
Versions == {1, 2}
\* names of the response handlers passed to the send calls: the k-th call
\* that reaches the semaphore passes handler k
Handlers == 1..MaxSends
NoHandler == 0
NoID == 0 - 1

VARIABLES
    \* ---- network (peer/network.go)
    lock,                        \* holder of network.lock, or "none"
    closed,                      \* network.closed
    requestIDGen,                \* network.requestIDGen
    outstandingRequestHandlers,  \* network.outstandingRequestHandlers: id -> handler
    acquired,                    \* successful activeAppRequests.Acquire(ctx, 1) calls
    released,                    \* activeAppRequests.Release(1) calls
    peers,                       \* peerTracker: connected node -> version
    trackedPeers,                \* peerTracker: nodes given to TrackPeer
    thread,                      \* per thread: the operation it runs and its locals
    \* ---- observations of the network's collaborators
    handlerGen,                  \* send calls made so far (names the handlers)
    registered,                  \* id -> handler, every registration ever made
    sentRequests,                \* ids AppSender.SendAppRequest accepted
    deliveries,                  \* AppResponse/AppRequestFailed calls made by the bus
    onResponse,                  \* handler -> OnResponse invocations
    onFailure,                   \* handler -> OnFailure invocations
    shutdownFailed,              \* handler -> OnFailure invocations made by Shutdown
    underLock,                   \* handlers called back while the caller held the lock
    fulfilled,                   \* id -> markRequestFulfilled calls that found a handler
    responseReleased,            \* id -> Release(1) calls of AppResponse/AppRequestFailed
    forwarded,                   \* id -> responses/failures forwarded to p2pNetwork
    inbound,                     \* counters of AppRequest / AppGossip effects
    issued,                      \* the last two ids nextRequestID returned
    slots,                       \* appRequestHandler / gossipHandler and their accesses
    \* ---- block assembly (miner/worker.go)
    wpc,                         \* position of commitNewWork
    pass,                        \* the commitTransactions call running: local / remote
    chainConfig,                 \* chain configuration at the new header
    env,                         \* the environment
    plainTxs,                    \* merger of the pass: plain transactions
    blobTxs,                     \* merger of the pass: blob transactions
    remoteTxs,                   \* remotePlainTxs / remoteBlobTxs awaiting their pass
    cur,                         \* ltx / tx / txs of the iteration in progress
    last,                        \* the last commitTransaction call: its entry and result
    observed,                    \* what the passes did: senders popped, mergers cleared
    mu,                          \* worker.mu: its read locks and its write lock
    coinbase                     \* worker.coinbase

netVars == <<lock, closed, requestIDGen, outstandingRequestHandlers, acquired,
             released, peers, trackedPeers, thread, handlerGen, registered,
             sentRequests, deliveries, onResponse, onFailure, shutdownFailed,
             underLock, fulfilled, responseReleased, forwarded, inbound, issued,
             slots>>

workerVars == <<wpc, pass, chainConfig, env, plainTxs, blobTxs, remoteTxs, cur, last,
               observed, mu, coinbase>>

\* the lock of the worker and what it protects
lockVars == <<mu, coinbase>>

vars == <<netVars, workerVars>>

(***************************************************************************)
(* Helpers on functions used as Go maps.                                   *)
(***************************************************************************)
MapPut(m, k, v) == [x \in DOMAIN m \cup {k} |-> IF x = k THEN v ELSE m[x]]
MapDelete(m, k) == [x \in DOMAIN m \ {k} |-> m[x]]
MapGet(m, k, dflt) == IF k \in DOMAIN m THEN m[k] ELSE dflt
Inc(m, k) == MapPut(m, k, MapGet(m, k, 0) + 1)
EmptyMap == [x \in {} |-> 0]

(***************************************************************************)
(* The semaphore activeAppRequests (golang.org/x/sync/semaphore.Weighted): *)
(* the permits held are the acquisitions not yet released.                 *)
(***************************************************************************)
PermitsHeld == acquired - released

\* no context was made for a request handler
NoDeadline == 0 - 1

\* what a call of AppRequest read and did: timeTillDeadline is
\* time.Until(deadline), elapsed the time between the reads of the clock,
\* handleCtx the deadline of the handler's context counted from the
\* time.Now() of calculateTimeUntilDeadline
\* handlerErr and responseBytes what the request handler returned,
\* sendAppResponse the outcome of AppSender.SendAppResponse ("none": no call)
\* bytes is the payload received, routed the payload handed to the fallback
\* router n.p2pNetwork ("none": no call)
\* handlerRead is the handler the call read from its slot ("none": no read)
NoRequest ==
    [decodable |-> FALSE, timeTillDeadline |-> 0, elapsed |-> 0,
     handleCtx |-> NoDeadline, handlerErr |-> "nil", responseBytes |-> "nil",
     sendAppResponse |-> "none", bytes |-> "none", routed |-> "none",
     handlerRead |-> "none"]

IdleThread ==
    [op |-> "idle", pc |-> "idle", nodeID |-> EmptyNodeID, requestID |-> NoID,
     handler |-> NoHandler, ctxDone |-> FALSE, minVersion |-> 0, todo |-> {},
     seen |-> {}, ret |-> "none", request |-> NoRequest,
     newHandler |-> "none"]

\* the context of a call may be cancelled by its owner at any time: what a
\* later ctx.Err() can observe given what an earlier one observed
CtxObservations(t) == IF thread[t].ctxDone THEN {TRUE} ELSE {FALSE, TRUE}

NetInit ==
    /\ lock = "none"
    /\ closed = FALSE
    /\ requestIDGen = 0
    /\ outstandingRequestHandlers = EmptyMap
    /\ acquired = 0
    /\ released = 0
    /\ peers = EmptyMap
    /\ trackedPeers = {}
    /\ thread = [t \in Threads |-> IdleThread]
    /\ handlerGen = 0
    /\ registered = EmptyMap
    /\ sentRequests = {}
    /\ deliveries = 0
    /\ onResponse = [h \in Handlers |-> 0]
    /\ onFailure = [h \in Handlers |-> 0]
    /\ shutdownFailed = [h \in Handlers |-> 0]
    /\ underLock = {}
    /\ fulfilled = EmptyMap
    /\ responseReleased = EmptyMap
    /\ forwarded = EmptyMap
    /\ inbound = [calls |-> 0, requestHandled |-> 0, gossipHandled |-> 0,
                  responsesSent |-> 0, dropped |-> 0, requestForwarded |-> 0,
                  gossipForwarded |-> 0]
    /\ issued = [prev |-> NoID, last |-> NoID]
    /\ slots = [appRequestHandler |-> "h0", gossipHandler |-> "h0",
                unguarded |-> {}, raced |-> {}]

UpdateThread(t, rec) == thread' = [thread EXCEPT ![t] = rec]

\* a call of thread t that has returned ret: its locals are gone
Returned(t, ret) ==
    [IdleThread EXCEPT !.op = thread[t].op, !.pc = "done", !.ret = ret,
                       !.handler = thread[t].handler,
                       !.requestID = thread[t].requestID]

\* a call of operation op by an idle thread
NewCall(op) == [IdleThread EXCEPT !.op = op]

(***************************************************************************)
(* nextRequestID: the counter advances by two; uint32 arithmetic wraps.    *)
(* RequestIDBits narrows the 32 bits of the counter.                       *)
(***************************************************************************)
RequestIDBits == 8

\* nextRequestID advancing the counter by one
nextRequestID_ByOne(gen) == [id |-> gen, gen |-> (gen + 1) % (2 ^ RequestIDBits)]

nextRequestID(gen) == [id |-> gen, gen |-> (gen + 2) % (2 ^ RequestIDBits)]

(***************************************************************************)
(* markRequestFulfilled: look the handler up and delete it, under the      *)
(* lock.                                                                   *)
(***************************************************************************)
\* markRequestFulfilled without the delete
markRequestFulfilled_NoDelete(outstanding, requestID) ==
    IF requestID \notin DOMAIN outstanding
    THEN [handler |-> NoHandler, exists |-> FALSE, outstanding |-> outstanding]
    ELSE [handler |-> outstanding[requestID], exists |-> TRUE,
          outstanding |-> outstanding]

markRequestFulfilled(outstanding, requestID) ==
    IF requestID \notin DOMAIN outstanding
    THEN [handler |-> NoHandler, exists |-> FALSE, outstanding |-> outstanding]
    ELSE [handler |-> outstanding[requestID], exists |-> TRUE,
          outstanding |-> MapDelete(outstanding, requestID)]

(***************************************************************************)
(* peerTracker.GetAnyPeer(minVersion): the connected peers that qualify.   *)
(***************************************************************************)
GetAnyPeer(minVersion) == {n \in DOMAIN peers : peers[n] >= minVersion}

netObservations == <<handlerGen, registered, sentRequests, deliveries, onResponse,
                     onFailure, shutdownFailed, underLock, fulfilled,
                     responseReleased, forwarded, inbound>>

(***************************************************************************)
(* SendAppRequest, up to the semaphore: the checks of nodeID and ctx.      *)
(***************************************************************************)
SendAppRequest(t) ==
    /\ thread[t].pc = "idle"
    /\ handlerGen < MaxSends
    /\ \E nodeID \in NodeIDs \cup {EmptyNodeID}, ctxDone \in BOOLEAN :
         LET call == NewCall("SendAppRequest")
         IN  IF nodeID = EmptyNodeID
             THEN /\ UpdateThread(t, [call EXCEPT !.pc = "done",
                                                  !.ret = "errEmptyNodeID"])
                  /\ UNCHANGED handlerGen
             ELSE IF ctxDone
             THEN /\ UpdateThread(t, [call EXCEPT !.pc = "done", !.ret = "ctxErr"])
                  /\ UNCHANGED handlerGen
             ELSE /\ UpdateThread(t, [call EXCEPT !.pc = "acquire", !.nodeID = nodeID,
                                                  !.handler = handlerGen + 1])
                  /\ handlerGen' = handlerGen + 1
    /\ UNCHANGED <<lock, closed, requestIDGen, outstandingRequestHandlers, acquired,
                   released, peers, trackedPeers, registered, sentRequests,
                   deliveries, onResponse, onFailure, shutdownFailed, underLock,
                   fulfilled, responseReleased, forwarded, inbound>>
    /\ UNCHANGED <<workerVars, issued, slots>>

(***************************************************************************)
(* SendAppRequestAny, up to the semaphore.                                 *)
(***************************************************************************)
SendAppRequestAny(t) ==
    /\ thread[t].pc = "idle"
    /\ handlerGen < MaxSends
    /\ \E minVersion \in Versions, ctxDone \in BOOLEAN :
         LET call == NewCall("SendAppRequestAny")
         IN  IF ctxDone
             THEN /\ UpdateThread(t, [call EXCEPT !.pc = "done", !.ret = "ctxErr"])
                  /\ UNCHANGED handlerGen
             ELSE /\ UpdateThread(t, [call EXCEPT !.pc = "acquire",
                                                  !.minVersion = minVersion,
                                                  !.handler = handlerGen + 1])
                  /\ handlerGen' = handlerGen + 1
    /\ UNCHANGED <<lock, closed, requestIDGen, outstandingRequestHandlers, acquired,
                   released, peers, trackedPeers, registered, sentRequests,
                   deliveries, onResponse, onFailure, shutdownFailed, underLock,
                   fulfilled, responseReleased, forwarded, inbound>>
    /\ UNCHANGED <<workerVars, issued, slots>>

(***************************************************************************)
(* activeAppRequests.Acquire(ctx, 1): takes a permit when one is free,     *)
(* blocks otherwise, and fails once ctx is cancelled.                      *)
(***************************************************************************)
Acquire(t) ==
    /\ thread[t].pc = "acquire"
    /\ \/ /\ PermitsHeld < MaxActiveAppRequests
          /\ acquired' = acquired + 1
          /\ UpdateThread(t, [thread[t] EXCEPT !.pc = "lock"])
       \/ /\ UpdateThread(t, Returned(t, "errAcquiringSemaphore"))
          /\ UNCHANGED acquired
    /\ UNCHANGED <<lock, closed, requestIDGen, outstandingRequestHandlers, released,
                   peers, trackedPeers, netObservations>>
    /\ UNCHANGED <<workerVars, issued, slots>>

(***************************************************************************)
(* sendAppRequest (write lock held by the caller): the result of the call  *)
(* for thread t sending to nodeID, as the new values of what it writes.    *)
(* ctxErr: ctx.Err() is non-nil; sendOK: AppSender.SendAppRequest returns  *)
(* nil.                                                                    *)
(***************************************************************************)
\* sendAppRequest without the return of its closed branch
sendAppRequest_ClosedFallsThrough(t, nodeID, ctxErr, sendOK) ==
    LET handler == thread[t].handler
        next    == nextRequestID(requestIDGen)
        added   == MapPut(outstandingRequestHandlers, next.id, handler)
        same    == [gen |-> requestIDGen, outstanding |-> outstandingRequestHandlers,
                    tracked |-> trackedPeers, registered |-> registered,
                    sent |-> sentRequests, requestID |-> NoID]
        early   == IF closed THEN 1 ELSE 0
    IN  IF ctxErr
        THEN same @@ [release |-> early + 1, ret |-> "ctxErr"]
        ELSE IF sendOK
        THEN [gen |-> next.gen, outstanding |-> added,
              tracked |-> trackedPeers \cup {nodeID},
              registered |-> MapPut(registered, next.id, handler),
              sent |-> sentRequests \cup {next.id}, requestID |-> next.id,
              release |-> early, ret |-> "nil"]
        ELSE [gen |-> next.gen, outstanding |-> MapDelete(added, next.id),
              tracked |-> trackedPeers \cup {nodeID},
              registered |-> MapPut(registered, next.id, handler),
              sent |-> sentRequests, requestID |-> next.id,
              release |-> early + 1, ret |-> "sendErr"]

\* sendAppRequest leaving the handler registered when the send fails
sendAppRequest_NoDeleteOnError(t, nodeID, ctxErr, sendOK) ==
    LET handler == thread[t].handler
        next    == nextRequestID(requestIDGen)
        added   == MapPut(outstandingRequestHandlers, next.id, handler)
        same    == [gen |-> requestIDGen, outstanding |-> outstandingRequestHandlers,
                    tracked |-> trackedPeers, registered |-> registered,
                    sent |-> sentRequests, requestID |-> NoID]
    IN  IF closed
        THEN same @@ [release |-> 1, ret |-> "nil"]
        ELSE IF ctxErr
        THEN same @@ [release |-> 1, ret |-> "ctxErr"]
        ELSE IF sendOK
        THEN [gen |-> next.gen, outstanding |-> added,
              tracked |-> trackedPeers \cup {nodeID},
              registered |-> MapPut(registered, next.id, handler),
              sent |-> sentRequests \cup {next.id}, requestID |-> next.id,
              release |-> 0, ret |-> "nil"]
        ELSE [gen |-> next.gen, outstanding |-> added,
              tracked |-> trackedPeers \cup {nodeID},
              registered |-> MapPut(registered, next.id, handler),
              sent |-> sentRequests, requestID |-> next.id,
              release |-> 1, ret |-> "sendErr"]

sendAppRequest(t, nodeID, ctxErr, sendOK) ==
    LET handler == thread[t].handler
        next    == nextRequestID(requestIDGen)
        added   == MapPut(outstandingRequestHandlers, next.id, handler)
        same    == [gen |-> requestIDGen, outstanding |-> outstandingRequestHandlers,
                    tracked |-> trackedPeers, registered |-> registered,
                    sent |-> sentRequests, requestID |-> NoID]
    IN  IF closed
        THEN same @@ [release |-> 1, ret |-> "nil"]
        ELSE IF ctxErr
        THEN same @@ [release |-> 1, ret |-> "ctxErr"]
        ELSE IF sendOK
        THEN [gen |-> next.gen, outstanding |-> added,
              tracked |-> trackedPeers \cup {nodeID},
              registered |-> MapPut(registered, next.id, handler),
              sent |-> sentRequests \cup {next.id}, requestID |-> next.id,
              release |-> 0, ret |-> "nil"]
        ELSE [gen |-> next.gen, outstanding |-> MapDelete(added, next.id),
              tracked |-> trackedPeers \cup {nodeID},
              registered |-> MapPut(registered, next.id, handler),
              sent |-> sentRequests, requestID |-> next.id,
              release |-> 1, ret |-> "sendErr"]

ApplySend(t, r) ==
    /\ requestIDGen' = r.gen
    /\ outstandingRequestHandlers' = r.outstanding
    /\ trackedPeers' = r.tracked
    /\ registered' = r.registered
    /\ sentRequests' = r.sent
    /\ released' = released + r.release
    /\ issued' = IF r.requestID = NoID THEN issued
                 ELSE [prev |-> issued.last, last |-> r.requestID]
    /\ UpdateThread(t, [Returned(t, r.ret) EXCEPT !.requestID = r.requestID])

(***************************************************************************)
(* SendAppRequest from n.lock.Lock() to the deferred Unlock.               *)
(***************************************************************************)
SendAppRequestLocked(t) ==
    /\ thread[t].pc = "lock"
    /\ thread[t].op = "SendAppRequest"
    /\ lock = "none"
    /\ \E ctxErr \in CtxObservations(t), sendOK \in BOOLEAN :
         ApplySend(t, sendAppRequest(t, thread[t].nodeID, ctxErr, sendOK))
    /\ UNCHANGED <<lock, closed, acquired, peers, handlerGen, deliveries, onResponse,
                   onFailure, shutdownFailed, underLock, fulfilled, responseReleased,
                   forwarded, inbound>>
    /\ UNCHANGED <<workerVars, slots>>

\* SendAppRequestAny keeping the permit when no peer qualifies
SendAppRequestAnyLocked_NoRelease(t) ==
    /\ thread[t].pc = "lock"
    /\ thread[t].op = "SendAppRequestAny"
    /\ lock = "none"
    /\ IF GetAnyPeer(thread[t].minVersion) # {}
       THEN \E nodeID \in GetAnyPeer(thread[t].minVersion),
               ctxErr \in CtxObservations(t), sendOK \in BOOLEAN :
                ApplySend(t, sendAppRequest(t, nodeID, ctxErr, sendOK))
       ELSE /\ UNCHANGED released
            /\ UpdateThread(t, Returned(t, "noPeers"))
            /\ UNCHANGED <<requestIDGen, outstandingRequestHandlers, trackedPeers,
                           registered, sentRequests, issued>>
    /\ UNCHANGED <<lock, closed, acquired, peers, handlerGen, deliveries, onResponse,
                   onFailure, shutdownFailed, underLock, fulfilled, responseReleased,
                   forwarded, inbound>>
    /\ UNCHANGED <<workerVars, slots>>

(***************************************************************************)
(* SendAppRequestAny from n.lock.Lock() to the deferred Unlock.            *)
(***************************************************************************)
SendAppRequestAnyLocked(t) ==
    /\ thread[t].pc = "lock"
    /\ thread[t].op = "SendAppRequestAny"
    /\ lock = "none"
    /\ IF GetAnyPeer(thread[t].minVersion) # {}
       THEN \E nodeID \in GetAnyPeer(thread[t].minVersion),
               ctxErr \in CtxObservations(t), sendOK \in BOOLEAN :
                ApplySend(t, sendAppRequest(t, nodeID, ctxErr, sendOK))
       ELSE /\ released' = released + 1
            /\ UpdateThread(t, Returned(t, "noPeers"))
            /\ UNCHANGED <<requestIDGen, outstandingRequestHandlers, trackedPeers,
                           registered, sentRequests, issued>>
    /\ UNCHANGED <<lock, closed, acquired, peers, handlerGen, deliveries, onResponse,
                   onFailure, shutdownFailed, underLock, fulfilled, responseReleased,
                   forwarded, inbound>>
    /\ UNCHANGED <<workerVars, slots>>

(***************************************************************************)
(* The locked part of SendAppRequest and SendAppRequestAny step by step:   *)
(* n.lock.Lock() up to the registration of the handler, the call of        *)
(* AppSender.SendAppRequest, and what follows it up to the deferred        *)
(* Unlock.  The bus can deliver a response from the moment AppSender has   *)
(* the request.                                                            *)
(***************************************************************************)
\* the request handed to AppSender with no handler registered for its id
RegisterHandler_SendsUnregistered(t) ==
    /\ thread[t].pc = "lock"
    /\ lock = "none"
    /\ IF thread[t].op = "SendAppRequestAny" /\ GetAnyPeer(thread[t].minVersion) = {}
       THEN /\ released' = released + 1
            /\ UpdateThread(t, Returned(t, "noPeers"))
            /\ UNCHANGED <<lock, requestIDGen, outstandingRequestHandlers,
                           trackedPeers, registered, issued>>
       ELSE \E nodeID \in (IF thread[t].op = "SendAppRequestAny"
                           THEN GetAnyPeer(thread[t].minVersion)
                           ELSE {thread[t].nodeID}),
               ctxErr \in CtxObservations(t) :
              IF closed \/ ctxErr
              THEN /\ released' = released + 1
                   /\ UpdateThread(t, Returned(t, IF closed THEN "nil" ELSE "ctxErr"))
                   /\ UNCHANGED <<lock, requestIDGen, outstandingRequestHandlers,
                                  trackedPeers, registered, issued>>
              ELSE LET next == nextRequestID(requestIDGen)
                   IN  /\ lock' = t
                       /\ trackedPeers' = trackedPeers \cup {nodeID}
                       /\ requestIDGen' = next.gen
                       /\ UNCHANGED outstandingRequestHandlers
                       /\ registered' = MapPut(registered, next.id, thread[t].handler)
                       /\ issued' = [prev |-> issued.last, last |-> next.id]
                       /\ UpdateThread(t, [thread[t] EXCEPT !.pc = "send",
                                                            !.nodeID = nodeID,
                                                            !.requestID = next.id])
                       /\ UNCHANGED released
    /\ UNCHANGED <<closed, acquired, peers, handlerGen, sentRequests, deliveries,
                   onResponse, onFailure, shutdownFailed, underLock, fulfilled,
                   responseReleased, forwarded, inbound>>
    /\ UNCHANGED <<workerVars, slots>>

\* n.lock.Lock(), GetAnyPeer, sendAppRequest up to l.190
RegisterHandler(t) ==
    /\ thread[t].pc = "lock"
    /\ lock = "none"
    /\ IF thread[t].op = "SendAppRequestAny" /\ GetAnyPeer(thread[t].minVersion) = {}
       THEN /\ released' = released + 1
            /\ UpdateThread(t, Returned(t, "noPeers"))
            /\ UNCHANGED <<lock, requestIDGen, outstandingRequestHandlers,
                           trackedPeers, registered, issued>>
       ELSE \E nodeID \in (IF thread[t].op = "SendAppRequestAny"
                           THEN GetAnyPeer(thread[t].minVersion)
                           ELSE {thread[t].nodeID}),
               ctxErr \in CtxObservations(t) :
              IF closed \/ ctxErr
              THEN /\ released' = released + 1
                   /\ UpdateThread(t, Returned(t, IF closed THEN "nil" ELSE "ctxErr"))
                   /\ UNCHANGED <<lock, requestIDGen, outstandingRequestHandlers,
                                  trackedPeers, registered, issued>>
              ELSE LET next == nextRequestID(requestIDGen)
                   IN  /\ lock' = t
                       /\ trackedPeers' = trackedPeers \cup {nodeID}
                       /\ requestIDGen' = next.gen
                       /\ outstandingRequestHandlers' =
                              MapPut(outstandingRequestHandlers, next.id,
                                     thread[t].handler)
                       /\ registered' = MapPut(registered, next.id, thread[t].handler)
                       /\ issued' = [prev |-> issued.last, last |-> next.id]
                       /\ UpdateThread(t, [thread[t] EXCEPT !.pc = "send",
                                                            !.nodeID = nodeID,
                                                            !.requestID = next.id])
                       /\ UNCHANGED released
    /\ UNCHANGED <<closed, acquired, peers, handlerGen, sentRequests, deliveries,
                   onResponse, onFailure, shutdownFailed, underLock, fulfilled,
                   responseReleased, forwarded, inbound>>
    /\ UNCHANGED <<workerVars, slots>>

\* n.appSender.SendAppRequest(ctx, nodeIDs, requestID, request)
InvokeSend(t) ==
    /\ thread[t].pc = "send"
    /\ \E sendOK \in BOOLEAN :
         /\ sentRequests' = IF sendOK THEN sentRequests \cup {thread[t].requestID}
                            ELSE sentRequests
         /\ UpdateThread(t, [thread[t] EXCEPT
                                !.pc = IF sendOK THEN "sent" ELSE "sendFailed"])
    /\ UNCHANGED <<lock, closed, requestIDGen, outstandingRequestHandlers, acquired,
                   released, peers, trackedPeers, handlerGen, registered,
                   deliveries, onResponse, onFailure, shutdownFailed, underLock,
                   fulfilled, responseReleased, forwarded, inbound>>
    /\ UNCHANGED <<workerVars, issued, slots>>

\* sendAppRequest after the send (l.206-222) and the deferred Unlock
SendReturns(t) ==
    /\ thread[t].pc \in {"sent", "sendFailed"}
    /\ lock' = "none"
    /\ IF thread[t].pc = "sendFailed"
       THEN /\ released' = released + 1
            /\ outstandingRequestHandlers' =
                   MapDelete(outstandingRequestHandlers, thread[t].requestID)
            /\ UpdateThread(t, Returned(t, "sendErr"))
       ELSE /\ UpdateThread(t, Returned(t, "nil"))
            /\ UNCHANGED <<released, outstandingRequestHandlers>>
    /\ UNCHANGED <<closed, requestIDGen, acquired, peers, trackedPeers, handlerGen,
                   registered, sentRequests, deliveries, onResponse, onFailure,
                   shutdownFailed, underLock, fulfilled, responseReleased,
                   forwarded, inbound>>
    /\ UNCHANGED <<workerVars, issued, slots>>

\* the call has returned: the thread is free for its next call
Return(t) ==
    /\ thread[t].pc = "done"
    /\ UpdateThread(t, IdleThread)
    /\ UNCHANGED <<lock, closed, requestIDGen, outstandingRequestHandlers, acquired,
                   released, peers, trackedPeers, netObservations>>
    /\ UNCHANGED <<workerVars, issued, slots>>

(***************************************************************************)
(* The bus delivers responses and failures for the requests AppSender      *)
(* accepted, possibly more than once.                                      *)
(***************************************************************************)
DeliverableIDs == IF deliveries < MaxDeliveries THEN sentRequests ELSE {}

(***************************************************************************)
(* AppResponse / AppRequestFailed up to the return of markRequestFulfilled *)
(* (the lock is taken and released within the step).                       *)
(***************************************************************************)
Fulfil(t, op) ==
    /\ thread[t].pc = "idle"
    /\ lock = "none"
    /\ \E requestID \in DeliverableIDs :
         LET r == markRequestFulfilled(outstandingRequestHandlers, requestID)
         IN  /\ outstandingRequestHandlers' = r.outstanding
             /\ deliveries' = deliveries + 1
             /\ fulfilled' = IF r.exists THEN Inc(fulfilled, requestID) ELSE fulfilled
             /\ UpdateThread(t, [NewCall(op) EXCEPT
                                    !.requestID = requestID, !.handler = r.handler,
                                    !.pc = IF r.exists THEN "release" ELSE "forward"])
    /\ UNCHANGED <<lock, closed, requestIDGen, acquired, released, peers, trackedPeers,
                   handlerGen, registered, sentRequests, onResponse, onFailure,
                   shutdownFailed, underLock, responseReleased, forwarded, inbound>>
    /\ UNCHANGED <<workerVars, issued, slots>>

AppResponse(t) == Fulfil(t, "AppResponse")

AppRequestFailed(t) == Fulfil(t, "AppRequestFailed")

\* AppResponse / AppRequestFailed: n.activeAppRequests.Release(1)
ReleaseSlot(t) ==
    /\ thread[t].pc = "release"
    /\ released' = released + 1
    /\ responseReleased' = Inc(responseReleased, thread[t].requestID)
    /\ UpdateThread(t, [thread[t] EXCEPT !.pc = "callback"])
    /\ UNCHANGED <<lock, closed, requestIDGen, outstandingRequestHandlers, acquired,
                   peers, trackedPeers, handlerGen, registered, sentRequests,
                   deliveries, onResponse, onFailure, shutdownFailed, underLock,
                   fulfilled, forwarded, inbound>>
    /\ UNCHANGED <<workerVars, issued, slots>>

\* AppResponse: handler.OnResponse(response); AppRequestFailed: handler.OnFailure()
Callback(t) ==
    /\ thread[t].pc = "callback"
    /\ IF thread[t].op = "AppResponse"
       THEN /\ onResponse' = [onResponse EXCEPT ![thread[t].handler] = @ + 1]
            /\ UNCHANGED onFailure
       ELSE /\ onFailure' = [onFailure EXCEPT ![thread[t].handler] = @ + 1]
            /\ UNCHANGED onResponse
    /\ underLock' = IF lock = t THEN underLock \cup {thread[t].handler} ELSE underLock
    /\ UpdateThread(t, Returned(t, "nil"))
    /\ UNCHANGED <<lock, closed, requestIDGen, outstandingRequestHandlers, acquired,
                   released, peers, trackedPeers, handlerGen, registered, sentRequests,
                   deliveries, shutdownFailed, fulfilled, responseReleased, forwarded,
                   inbound>>
    /\ UNCHANGED <<workerVars, issued, slots>>

\* AppResponse / AppRequestFailed of an unknown id: forwarded to n.p2pNetwork
Forward(t) ==
    /\ thread[t].pc = "forward"
    /\ forwarded' = Inc(forwarded, thread[t].requestID)
    /\ UpdateThread(t, Returned(t, "nil"))
    /\ UNCHANGED <<lock, closed, requestIDGen, outstandingRequestHandlers, acquired,
                   released, peers, trackedPeers, handlerGen, registered, sentRequests,
                   deliveries, onResponse, onFailure, shutdownFailed, underLock,
                   fulfilled, responseReleased>>
    /\ UNCHANGED inbound
    /\ UNCHANGED <<workerVars, issued, slots>>

\* Shutdown entering its loop without n.lock.Lock()
Shutdown_NoLock(t) ==
    /\ thread[t].pc = "idle"
    /\ lock = "none"
    /\ lock' = lock
    /\ UpdateThread(t, [NewCall("Shutdown") EXCEPT
            !.pc = "shutdownLoop",
            !.todo = DOMAIN outstandingRequestHandlers,
            !.seen = {outstandingRequestHandlers[id] :
                          id \in DOMAIN outstandingRequestHandlers}])
    /\ UNCHANGED <<closed, requestIDGen, outstandingRequestHandlers, acquired,
                   released, peers, trackedPeers, netObservations>>
    /\ UNCHANGED <<workerVars, issued, slots>>

(***************************************************************************)
(* Shutdown: n.lock.Lock(), and the range over the outstanding handlers    *)
(* begins (todo: the keys still to visit).                                 *)
(***************************************************************************)
Shutdown(t) ==
    /\ thread[t].pc = "idle"
    /\ lock = "none"
    /\ lock' = t
    /\ UpdateThread(t, [NewCall("Shutdown") EXCEPT
            !.pc = "shutdownLoop",
            !.todo = DOMAIN outstandingRequestHandlers,
            !.seen = {outstandingRequestHandlers[id] :
                          id \in DOMAIN outstandingRequestHandlers}])
    /\ UNCHANGED <<closed, requestIDGen, outstandingRequestHandlers, acquired,
                   released, peers, trackedPeers, netObservations>>
    /\ UNCHANGED <<workerVars, issued, slots>>

\* Shutdown's loop without the delete
ShutdownVisit_NoDelete(outstanding, requestID) == outstanding

\* the body of Shutdown's loop for the entry of requestID: what is left of
\* the map
ShutdownVisit(outstanding, requestID) == MapDelete(outstanding, requestID)

\* one iteration of Shutdown's loop, in the order the map's range yields
ShutdownLoop(t) ==
    /\ thread[t].pc = "shutdownLoop"
    /\ \E requestID \in thread[t].todo :
         LET handler == outstandingRequestHandlers[requestID]
         IN  /\ onFailure' = [onFailure EXCEPT ![handler] = @ + 1]
             /\ shutdownFailed' = [shutdownFailed EXCEPT ![handler] = @ + 1]
             /\ underLock' = IF lock = t THEN underLock \cup {handler} ELSE underLock
             /\ outstandingRequestHandlers' =
                    ShutdownVisit(outstandingRequestHandlers, requestID)
             /\ UpdateThread(t, [thread[t] EXCEPT !.todo = @ \ {requestID}])
    /\ UNCHANGED <<lock, closed, requestIDGen, acquired, released, peers,
                   trackedPeers, handlerGen, registered, sentRequests, deliveries,
                   onResponse, fulfilled, responseReleased, forwarded, inbound>>
    /\ UNCHANGED <<workerVars, issued, slots>>

\* Shutdown after the loop: reset peers, set closed, the deferred Unlock
ShutdownFinish(t) ==
    /\ thread[t].pc = "shutdownLoop"
    /\ thread[t].todo = {}
    /\ peers' = EmptyMap
    /\ trackedPeers' = {}
    /\ closed' = TRUE
    /\ lock' = "none"
    /\ UpdateThread(t, [Returned(t, "none") EXCEPT !.seen = thread[t].seen])
    /\ UNCHANGED <<requestIDGen, outstandingRequestHandlers, acquired, released,
                   netObservations>>
    /\ UNCHANGED <<workerVars, issued, slots>>

(***************************************************************************)
(* Connected / Disconnected: the whole call runs under the lock.           *)
(***************************************************************************)
Connected(t) ==
    /\ thread[t].pc = "idle"
    /\ lock = "none"
    /\ \E nodeID \in NodeIDs, nodeVersion \in Versions :
         peers' = IF closed \/ nodeID = Self THEN peers
                  ELSE MapPut(peers, nodeID, nodeVersion)
    /\ UNCHANGED <<lock, closed, requestIDGen, outstandingRequestHandlers, acquired,
                   released, trackedPeers, thread, netObservations>>
    /\ UNCHANGED <<workerVars, issued, slots>>

Disconnected(t) ==
    /\ thread[t].pc = "idle"
    /\ lock = "none"
    /\ \E nodeID \in NodeIDs :
         peers' = IF closed \/ nodeID = Self THEN peers ELSE MapDelete(peers, nodeID)
    /\ UNCHANGED <<lock, closed, requestIDGen, outstandingRequestHandlers, acquired,
                   released, trackedPeers, thread, netObservations>>
    /\ UNCHANGED <<workerVars, issued, slots>>

(***************************************************************************)
(* AppRequest.  Durations are in milliseconds.                             *)
(***************************************************************************)
\* the handlers the owner of the network installs
SlotHandlers == {"h0", "h1"}

\* the operation that writes a slot
Setter(slot) == IF slot = "appRequestHandler" THEN "SetRequestHandler"
                ELSE "SetGossipHandler"

\* the threads inside the setter of slot, between n.lock.Lock() and the
\* store
Writers(slot) ==
    {u \in Threads : thread[u].op = Setter(slot) /\ thread[u].pc = "setHandler"}

\* what a read of slot by a thread that took no lock can return: the value
\* stored, or the value a concurrent setter is storing
ReadSlot(slot) == {slots[slot]} \cup {thread[u].newHandler : u \in Writers(slot)}

\* slots after thread t read slot
AfterRead(t, slot) ==
    [slots EXCEPT
        !.unguarded = IF lock = t THEN @ ELSE @ \cup {slot},
        !.raced = IF Writers(slot) \ {t} # {} THEN @ \cup {slot} ELSE @]

\* SetRequestHandler / SetGossipHandler: n.lock.Lock()
SetHandler(t) ==
    /\ thread[t].pc = "idle"
    /\ lock = "none"
    /\ lock' = t
    /\ \E op \in {"SetRequestHandler", "SetGossipHandler"}, handler \in SlotHandlers :
         UpdateThread(t, [NewCall(op) EXCEPT !.pc = "setHandler",
                                             !.newHandler = handler])
    /\ UNCHANGED <<closed, requestIDGen, outstandingRequestHandlers, acquired,
                   released, peers, trackedPeers, netObservations>>
    /\ UNCHANGED <<workerVars, issued, slots>>

\* SetRequestHandler / SetGossipHandler: the store and the deferred Unlock
StoreHandler(t) ==
    /\ thread[t].pc = "setHandler"
    /\ slots' = [slots EXCEPT
                    ![IF thread[t].op = "SetRequestHandler"
                      THEN "appRequestHandler" ELSE "gossipHandler"] =
                        thread[t].newHandler,
                    !.unguarded = IF lock = t THEN @
                                  ELSE @ \cup {thread[t].op}]
    /\ lock' = "none"
    /\ UpdateThread(t, Returned(t, "none"))
    /\ UNCHANGED <<closed, requestIDGen, outstandingRequestHandlers, acquired,
                   released, peers, trackedPeers, netObservations>>
    /\ UNCHANGED <<workerVars, issued>>

\* the payloads peers send: "msg" is the encoding of a message, the
\* others are not
Payloads == {"msg", "x1", "x2"}

\* n.codec.Unmarshal succeeds
Unmarshal(bytes) == bytes = "msg"

minRequestHandlingDuration == 100

\* time.Until(deadline) values the callers present
DeadlineChoices == {-50, 100, 199, 200, 201, 400}
\* time passing between the two clock reads of calculateTimeUntilDeadline
ElapsedChoices == {0, 1}

\* Go's integer division truncates toward zero
GoDiv(a, b) == IF a >= 0 THEN a \div b ELSE -((-a) \div b)

\* the buffered deadline set to the deadline itself
calculateTimeUntilDeadline_NoHalving(timeTillDeadline, elapsed) ==
    LET bufferedDeadline == timeTillDeadline
    IN  IF bufferedDeadline - elapsed < minRequestHandlingDuration
        THEN [bufferedDeadline |-> 0, err |-> "errExpiredRequest"]
        ELSE [bufferedDeadline |-> bufferedDeadline, err |-> "nil"]

\* calculateTimeUntilDeadline: timeTillDeadline is time.Until(deadline) at the
\* first clock read; elapsed is the time from computing bufferedDeadline to
\* reading time.Until(bufferedDeadline)
calculateTimeUntilDeadline(timeTillDeadline, elapsed) ==
    LET bufferedDeadline == GoDiv(timeTillDeadline, 2)
    IN  IF bufferedDeadline - elapsed < minRequestHandlingDuration
        THEN [bufferedDeadline |-> 0, err |-> "errExpiredRequest"]
        ELSE [bufferedDeadline |-> bufferedDeadline, err |-> "nil"]

\* AppRequest up to the read of n.closed
AppRequest(t) ==
    /\ thread[t].pc = "idle"
    /\ inbound.calls < MaxInbound
    /\ inbound' = [inbound EXCEPT !.calls = @ + 1]
    /\ UpdateThread(t, IF closed
                       THEN [NewCall("AppRequest") EXCEPT !.pc = "done", !.ret = "nil"]
                       ELSE [NewCall("AppRequest") EXCEPT !.pc = "handleRequest"])
    /\ UNCHANGED <<lock, closed, requestIDGen, outstandingRequestHandlers, acquired,
                   released, peers, trackedPeers, handlerGen, registered, sentRequests,
                   deliveries, onResponse, onFailure, shutdownFailed, underLock,
                   fulfilled, responseReleased, forwarded>>
    /\ UNCHANGED <<workerVars, issued, slots>>

\* AppRequest after the read of n.closed: decode, deadline, handler, response
HandleRequest(t) ==
    /\ thread[t].pc = "handleRequest"
    /\ \E bytes \in Payloads, timeTillDeadline \in DeadlineChoices,
          elapsed \in ElapsedChoices,
          handlerErr \in {"nil", "DeadlineExceeded", "other"},
          responseBytes \in {"nil", "bytes"}, sendOK \in BOOLEAN,
          routerOK \in BOOLEAN, handler \in ReadSlot("appRequestHandler") :
         LET decodable == Unmarshal(bytes)
             d == calculateTimeUntilDeadline(timeTillDeadline, elapsed)
             Skipped(ret) ==
                 [Returned(t, ret) EXCEPT !.request =
                     [NoRequest EXCEPT !.decodable = decodable,
                                       !.bytes = bytes,
                                       !.routed = IF decodable THEN "none"
                                                  ELSE bytes,
                                       !.timeTillDeadline = timeTillDeadline,
                                       !.elapsed = elapsed]]
             Handled(ret, sent) ==
                 [Returned(t, ret) EXCEPT !.request =
                     [decodable |-> TRUE,
                      timeTillDeadline |-> timeTillDeadline,
                      elapsed |-> elapsed,
                      handleCtx |-> d.bufferedDeadline,
                      handlerErr |-> handlerErr,
                      responseBytes |-> responseBytes,
                      sendAppResponse |-> sent,
                      bytes |-> bytes,
                      routed |-> "none",
                      handlerRead |-> handler]]
         IN  IF ~decodable
             THEN /\ inbound' = [inbound EXCEPT !.requestForwarded = @ + 1]
                  /\ UNCHANGED slots
                  \* return n.p2pNetwork.AppRequest(...): the router's error
                  /\ UpdateThread(t, Skipped(IF routerOK THEN "nil" ELSE "fatal"))
             ELSE IF d.err # "nil"
             THEN /\ inbound' = [inbound EXCEPT !.dropped = @ + 1]
                  /\ UNCHANGED slots
                  /\ UpdateThread(t, Skipped("nil"))
             ELSE IF handlerErr # "nil" /\ handlerErr # "DeadlineExceeded"
             THEN /\ inbound' = [inbound EXCEPT !.requestHandled = @ + 1]
                  /\ slots' = AfterRead(t, "appRequestHandler")
                  /\ UpdateThread(t, Handled("fatal", "none"))
             ELSE IF responseBytes # "nil"
             THEN /\ inbound' = [inbound EXCEPT !.requestHandled = @ + 1,
                                                !.responsesSent = @ + 1]
                  /\ slots' = AfterRead(t, "appRequestHandler")
                  /\ UpdateThread(t, IF sendOK THEN Handled("nil", "ok")
                                     ELSE Handled("fatal", "error"))
             ELSE /\ inbound' = [inbound EXCEPT !.requestHandled = @ + 1]
                  /\ slots' = AfterRead(t, "appRequestHandler")
                  /\ UpdateThread(t, Handled("nil", "none"))
    /\ UNCHANGED <<lock, closed, requestIDGen, outstandingRequestHandlers, acquired,
                   released, peers, trackedPeers, handlerGen, registered, sentRequests,
                   deliveries, onResponse, onFailure, shutdownFailed, underLock,
                   fulfilled, responseReleased, forwarded>>
    /\ UNCHANGED <<workerVars, issued>>

\* the gossip handler given what the codec could not decode
AppGossip_HandlesUndecodable(t) ==
    /\ thread[t].pc = "idle"
    /\ inbound.calls < MaxInbound
    /\ \E bytes \in Payloads, handler \in ReadSlot("gossipHandler") :
         LET decodable == Unmarshal(bytes)
         IN  /\ inbound' = IF TRUE
                           THEN [inbound EXCEPT !.calls = @ + 1,
                                                !.gossipHandled = @ + 1]
                           ELSE [inbound EXCEPT !.calls = @ + 1,
                                                !.gossipForwarded = @ + 1]
             /\ UpdateThread(t, [NewCall("AppGossip") EXCEPT
                    !.pc = "done", !.ret = "nil",
                    !.request = [NoRequest EXCEPT
                                    !.decodable = decodable,
                                    !.bytes = bytes,
                                    !.routed = IF decodable THEN "none"
                                               ELSE bytes,
                                    !.handlerRead = IF decodable THEN handler
                                                    ELSE "none"]])
             /\ slots' = IF decodable THEN AfterRead(t, "gossipHandler")
                         ELSE slots
    /\ UNCHANGED <<lock, closed, requestIDGen, outstandingRequestHandlers, acquired,
                   released, peers, trackedPeers, handlerGen, registered, sentRequests,
                   deliveries, onResponse, onFailure, shutdownFailed, underLock,
                   fulfilled, responseReleased, forwarded>>
    /\ UNCHANGED <<workerVars, issued>>

(***************************************************************************)
(* AppGossip: decode, then the gossip handler or the fallback router.      *)
(***************************************************************************)
AppGossip(t) ==
    /\ thread[t].pc = "idle"
    /\ inbound.calls < MaxInbound
    /\ \E bytes \in Payloads, handler \in ReadSlot("gossipHandler") :
         LET decodable == Unmarshal(bytes)
         IN  /\ inbound' = IF decodable
                           THEN [inbound EXCEPT !.calls = @ + 1,
                                                !.gossipHandled = @ + 1]
                           ELSE [inbound EXCEPT !.calls = @ + 1,
                                                !.gossipForwarded = @ + 1]
             /\ UpdateThread(t, [NewCall("AppGossip") EXCEPT
                    !.pc = "done", !.ret = "nil",
                    !.request = [NoRequest EXCEPT
                                    !.decodable = decodable,
                                    !.bytes = bytes,
                                    !.routed = IF decodable THEN "none"
                                               ELSE bytes,
                                    !.handlerRead = IF decodable THEN handler
                                                    ELSE "none"]])
             /\ slots' = IF decodable THEN AfterRead(t, "gossipHandler")
                         ELSE slots
    /\ UNCHANGED <<lock, closed, requestIDGen, outstandingRequestHandlers, acquired,
                   released, peers, trackedPeers, handlerGen, registered, sentRequests,
                   deliveries, onResponse, onFailure, shutdownFailed, underLock,
                   fulfilled, responseReleased, forwarded>>
    /\ UNCHANGED <<workerVars, issued>>

(***************************************************************************)
(* Block assembly: miner/worker.go.  One call of commitNewWork per         *)
(* behaviour; the worker's collaborators (the pool, the state database,    *)
(* core.ApplyTransaction, core.CheckPredicates) are inputs.                *)
(***************************************************************************)
TxGas == 21000
BlobTxBlobGasPerBlob == 131072
MaxBlobGasPerBlock == 786432
targetTxsSize == 1835008
ApricotPhase1GasLimit == 8000000
CortinaGasLimit == 15000000

Accounts == {1, 2, 3, 4}

NoTx ==
    [hash |-> "nil", from |-> 0, type |-> "none", gas |-> 0, tip |-> 0, size |-> 0,
     blobs |-> 0, protected |-> FALSE]

PlainTx(hash, from, gas, tip, size, protected) ==
    [hash |-> hash, from |-> from, type |-> "plain", gas |-> gas, tip |-> tip,
     size |-> size, blobs |-> 0, protected |-> protected]

\* a blob transaction: blobs is len(tx.BlobTxSidecar().Blobs)
BlobTx(hash, from, gas, tip, size, blobs) ==
    [hash |-> hash, from |-> from, type |-> "blob", gas |-> gas, tip |-> tip,
     size |-> size, blobs |-> blobs, protected |-> TRUE]

\* the executable transactions of the pool, per account in nonce order; an
\* account has its transactions in one of the two subpools
PoolPlain ==
    [a \in Accounts |->
        IF a = 1
        THEN <<PlainTx("p1", 1, 21000, 3, 200, FALSE),
               PlainTx("p2", 1, 7990000, 1, 1000000, TRUE)>>
        ELSE IF a = 2
        THEN <<PlainTx("p3", 2, 21000, 2, 1000000, TRUE)>>
        ELSE <<>>]

PoolBlob ==
    [a \in Accounts |->
        IF a = 3
        THEN <<BlobTx("b1", 3, 21000, 3, 300, 1), BlobTx("b2", 3, 21000, 1, 300, 4)>>
        ELSE IF a = 4
        THEN <<BlobTx("b3", 4, 21000, 2, 300, 3), BlobTx("b4", 4, 21000, 2, 300, 2)>>
        ELSE <<>>]

\* the transactions of the pool by hash
PoolTxs ==
    UNION {{pool[a][i] : i \in 1..Len(pool[a])} :
              pool \in {PoolPlain, PoolBlob}, a \in Accounts}

TxByHash(hash) == CHOOSE tx \in PoolTxs : tx.hash = hash

\* tx.BlobTxSidecar(): the sidecar of a blob transaction, named by the hash
\* of the transaction it came with; "nil" for a plain transaction
BlobTxSidecar(tx) == IF tx.type = "blob" THEN tx.hash ELSE "nil"

\* a transaction as env.txs holds it: its hash and the sidecar it carries
TxEntry(tx) == [hash |-> tx.hash, sidecar |-> BlobTxSidecar(tx)]

\* tx.WithoutBlobTxSidecar(): the same transaction (and hash), no sidecar
WithoutBlobTxSidecar(tx) == [TxEntry(tx) EXCEPT !.sidecar = "nil"]

\* the hashes of the transactions of env.txs, in order
Hashes(txs) == [i \in 1..Len(txs) |-> txs[i].hash]

\* TxPool.Pending(filter): what of the pool is pending when the block is built
Pending(pool) ==
    {[a \in Accounts |-> SubSeq(pool[a], 1, n[a])] :
        n \in {f \in [Accounts -> 0..2] : \A a \in Accounts : f[a] <= Len(pool[a])}}

\* the lazy transaction's Gas and BlobGas fields
LazyGas(ltx) == ltx.gas
LazyBlobGas(ltx) == ltx.blobs * BlobTxBlobGasPerBlob

\* TxPool.Locals(): the accounts treated as local
Locals == {{}, {1, 3}, {2, 4}, {1, 4}}

\* the chain configurations at the new header
ChainConfigs ==
    {[IsEIP155 |-> FALSE, IsCortina |-> FALSE, IsDurango |-> FALSE],
     [IsEIP155 |-> TRUE, IsCortina |-> FALSE, IsDurango |-> FALSE],
     [IsEIP155 |-> TRUE, IsCortina |-> TRUE, IsDurango |-> FALSE],
     [IsEIP155 |-> TRUE, IsCortina |-> TRUE, IsDurango |-> TRUE]}

(***************************************************************************)
(* transactionsByPriceAndNonce: the heads of the senders' lists, the top   *)
(* one being the head of the highest tip (ties: the lower address).        *)
(***************************************************************************)
EmptyTxs == [a \in Accounts |-> <<>>]

newTransactionsByPriceAndNonce(txs) == txs

Heads(m) == {a \in Accounts : m[a] # <<>>}

Top(m) ==
    CHOOSE a \in Heads(m) :
        \A b \in Heads(m) :
            \/ Head(m[b]).tip < Head(m[a]).tip
            \/ (Head(m[b]).tip = Head(m[a]).tip /\ a <= b)

Peek(m) == IF Heads(m) = {} THEN NoTx ELSE Head(m[Top(m)])

Shift(m) == [m EXCEPT ![Top(m)] = Tail(@)]

Pop(m) == [m EXCEPT ![Top(m)] = <<>>]

Empty(m) == Heads(m) = {}

Clear(m) == EmptyTxs

(***************************************************************************)
(* The state database: the journal of the writes made, a snapshot being a  *)
(* position in it, and the transaction context.                            *)
(***************************************************************************)
Snapshot(state) == Len(state.journal)

RevertToSnapshot(state, snap) == [state EXCEPT !.journal = SubSeq(@, 1, snap)]

SetTxContext(state, thash, ti) == [state EXCEPT !.thash = thash, !.txIndex = ti]

\* createCurrentEnvironment, for the header's gas limit and the rules
createCurrentEnvironment(gasLimit, isDurango) ==
    [state |-> [journal |-> <<>>, thash |-> "nil", txIndex |-> 0,
                prefetcher |-> "started"],
     tcount |-> 0,
     gasPool |-> gasLimit,
     header |-> [GasLimit |-> gasLimit, GasUsed |-> 0, BlobGasUsed |-> 0],
     txs |-> <<>>,
     receipts |-> <<>>,
     sidecars |-> <<>>,
     blobs |-> 0,
     size |-> 0,
     rules |-> [IsDurango |-> isDurango],
     predicateResults |-> {}]

NoReceipt == [TxHash |-> "nil", GasUsed |-> 0, BlobGasUsed |-> 0]

(***************************************************************************)
(* What core.CheckPredicates and core.ApplyTransaction do with a           *)
(* transaction is an input of applyTransaction: an outcome o.              *)
(*   o.predicate  "ok" / "fail": the result of CheckPredicates             *)
(*   o.apply      "nil" / "ErrNonceTooLow" / "error": ApplyTransaction's   *)
(*                error                                                    *)
(*   o.gasUsed    the gas a successful execution uses                      *)
(*   o.dirty      a failed execution wrote to the state and took gas from  *)
(*                the pool before it failed                                *)
(***************************************************************************)
Outcomes(isDurango, tx) ==
    {[predicate |-> "ok", apply |-> "nil", gasUsed |-> g, dirty |-> FALSE] :
        g \in {TxGas, tx.gas}}
    \cup {[predicate |-> "ok", apply |-> "ErrNonceTooLow", gasUsed |-> 0,
           dirty |-> FALSE]}
    \cup {[predicate |-> "ok", apply |-> "error", gasUsed |-> 0, dirty |-> d] :
        d \in BOOLEAN}
    \cup (IF isDurango
          THEN {[predicate |-> "fail", apply |-> "nil", gasUsed |-> 0,
                 dirty |-> FALSE]}
          ELSE {})

\* core.ApplyTransaction(..., env.gasPool, env.state, env.header, tx,
\* &env.header.GasUsed, ...) with outcome o
ApplyTransaction(e, tx, o) ==
    IF o.apply = "nil"
    THEN [env |-> [e EXCEPT !.state.journal = Append(@, <<tx.hash, "applied">>),
                            !.gasPool = @ - o.gasUsed,
                            !.header.GasUsed = @ + o.gasUsed],
          receipt |-> [TxHash |-> tx.hash, GasUsed |-> o.gasUsed,
                       BlobGasUsed |-> tx.blobs * BlobTxBlobGasPerBlob],
          err |-> "nil"]
    ELSE IF o.dirty
    THEN [env |-> [e EXCEPT !.state.journal = Append(@, <<tx.hash, "partial">>),
                            !.gasPool = @ - tx.gas],
          receipt |-> NoReceipt, err |-> o.apply]
    ELSE [env |-> e, receipt |-> NoReceipt, err |-> o.apply]

\* applyTransaction whose error path leaves the gas pool as the execution
\* left it
applyTransaction_NoSetGas(e, tx, o) ==
    LET snap == Snapshot(e.state)
    IN  IF e.rules.IsDurango /\ o.predicate = "fail"
        THEN [env |-> e, receipt |-> NoReceipt, err |-> "predicate"]
        ELSE LET e1 == IF e.rules.IsDurango
                       THEN [e EXCEPT !.predicateResults = @ \cup {tx.hash}]
                       ELSE e
                 r  == ApplyTransaction(e1, tx, o)
             IN  IF r.err # "nil"
                 THEN [env |-> [r.env EXCEPT
                                  !.state = RevertToSnapshot(@, snap),
                                  !.predicateResults = @ \ {tx.hash}],
                       receipt |-> r.receipt, err |-> r.err]
                 ELSE r

(***************************************************************************)
(* applyTransaction: runs the transaction; if the execution fails, state,  *)
(* gas pool and predicate results are reverted.                            *)
(***************************************************************************)
applyTransaction(e, tx, o) ==
    LET snap == Snapshot(e.state)
        gp   == e.gasPool
    IN  IF e.rules.IsDurango /\ o.predicate = "fail"
        THEN [env |-> e, receipt |-> NoReceipt, err |-> "predicate"]
        ELSE LET e1 == IF e.rules.IsDurango
                       THEN [e EXCEPT !.predicateResults = @ \cup {tx.hash}]
                       ELSE e
                 r  == ApplyTransaction(e1, tx, o)
             IN  IF r.err # "nil"
                 THEN [env |-> [r.env EXCEPT
                                  !.state = RevertToSnapshot(@, snap),
                                  !.gasPool = gp,
                                  !.predicateResults = @ \ {tx.hash}],
                       receipt |-> r.receipt, err |-> r.err]
                 ELSE r

\* commitBlobTransaction counting the blobs of the sidecar twice
commitBlobTransaction_BlobsCountedTwice(e, tx, o) ==
    IF (e.blobs + tx.blobs) * BlobTxBlobGasPerBlob > MaxBlobGasPerBlock
    THEN [env |-> e, err |-> "max data blobs reached"]
    ELSE LET r == applyTransaction(e, tx, o)
         IN  IF r.err # "nil"
             THEN [env |-> r.env, err |-> r.err]
             ELSE [env |-> [r.env EXCEPT
                              !.txs = Append(@, WithoutBlobTxSidecar(tx)),
                              !.receipts = Append(@, r.receipt),
                              !.sidecars = Append(@, BlobTxSidecar(tx)),
                              !.blobs = @ + tx.blobs + tx.blobs,
                              !.header.BlobGasUsed = @ + r.receipt.BlobGasUsed],
                   err |-> "nil"]

\* commitBlobTransaction storing the transaction with its sidecar
commitBlobTransaction_KeepsSidecar(e, tx, o) ==
    IF (e.blobs + tx.blobs) * BlobTxBlobGasPerBlob > MaxBlobGasPerBlock
    THEN [env |-> e, err |-> "max data blobs reached"]
    ELSE LET r == applyTransaction(e, tx, o)
         IN  IF r.err # "nil"
             THEN [env |-> r.env, err |-> r.err]
             ELSE [env |-> [r.env EXCEPT
                              !.txs = Append(@, TxEntry(tx)),
                              !.receipts = Append(@, r.receipt),
                              !.sidecars = Append(@, BlobTxSidecar(tx)),
                              !.blobs = @ + tx.blobs,
                              !.header.BlobGasUsed = @ + r.receipt.BlobGasUsed],
                   err |-> "nil"]

\* commitBlobTransaction counting the blobs before the transaction is applied
commitBlobTransaction_CountsBeforeApply(e, tx, o) ==
    IF (e.blobs + tx.blobs) * BlobTxBlobGasPerBlob > MaxBlobGasPerBlock
    THEN [env |-> e, err |-> "max data blobs reached"]
    ELSE LET r == applyTransaction([e EXCEPT !.blobs = @ + tx.blobs], tx, o)
         IN  IF r.err # "nil"
             THEN [env |-> r.env, err |-> r.err]
             ELSE [env |-> [r.env EXCEPT
                              !.txs = Append(@, WithoutBlobTxSidecar(tx)),
                              !.receipts = Append(@, r.receipt),
                              !.sidecars = Append(@, BlobTxSidecar(tx)),
                              !.header.BlobGasUsed = @ + r.receipt.BlobGasUsed],
                   err |-> "nil"]

\* commitBlobTransaction: the blob limit, then as commitTransaction, with
\* the sidecar kept aside and the blobs counted
commitBlobTransaction(e, tx, o) ==
    IF (e.blobs + tx.blobs) * BlobTxBlobGasPerBlob > MaxBlobGasPerBlock
    THEN [env |-> e, err |-> "max data blobs reached"]
    ELSE LET r == applyTransaction(e, tx, o)
         IN  IF r.err # "nil"
             THEN [env |-> r.env, err |-> r.err]
             ELSE [env |-> [r.env EXCEPT
                              !.txs = Append(@, WithoutBlobTxSidecar(tx)),
                              !.receipts = Append(@, r.receipt),
                              !.sidecars = Append(@, BlobTxSidecar(tx)),
                              !.blobs = @ + tx.blobs,
                              !.header.BlobGasUsed = @ + r.receipt.BlobGasUsed],
                   err |-> "nil"]

\* commitTransaction that appends the transaction but not its receipt
commitTransaction_NoReceipt(e, tx, o) ==
    IF tx.type = "blob"
    THEN commitBlobTransaction(e, tx, o)
    ELSE LET r == applyTransaction(e, tx, o)
         IN  IF r.err # "nil"
             THEN [env |-> r.env, err |-> r.err]
             ELSE [env |-> [r.env EXCEPT !.txs = Append(@, TxEntry(tx)),
                                         !.size = @ + tx.size],
                   err |-> "nil"]

commitTransaction(e, tx, o) ==
    IF tx.type = "blob"
    THEN commitBlobTransaction(e, tx, o)
    ELSE LET r == applyTransaction(e, tx, o)
         IN  IF r.err # "nil"
             THEN [env |-> r.env, err |-> r.err]
             ELSE [env |-> [r.env EXCEPT !.txs = Append(@, TxEntry(tx)),
                                         !.receipts = Append(@, r.receipt),
                                         !.size = @ + tx.size],
                   err |-> "nil"]

\* commitTransactions without the check of the gas left for the transaction
commitTransactionsSelect_NoGasCheck(e, plain, blob, resolved, isEIP155) ==
    LET blob1 == IF ~Empty(blob)
                    /\ e.blobs * BlobTxBlobGasPerBlob >= MaxBlobGasPerBlock
                 THEN Clear(blob)
                 ELSE blob
        pltx  == Peek(plain)
        bltx  == Peek(blob1)
        which == IF pltx.hash = "nil" THEN "blob"
                 ELSE IF bltx.hash = "nil" THEN "plain"
                 ELSE IF pltx.tip < bltx.tip THEN "blob"
                 ELSE "plain"
        ltx   == IF which = "blob" THEN bltx ELSE pltx
        \* uint64(MaxBlobGasPerBlock - env.blobs*BlobTxBlobGasPerBlob): a
        \* negative difference converts to a value above every BlobGas
        diff  == MaxBlobGasPerBlock - e.blobs * BlobTxBlobGasPerBlob
        skip  == IF diff >= 0 /\ diff < LazyBlobGas(ltx) THEN "blobGas"
                 ELSE IF ~resolved THEN "resolve"
                 ELSE IF e.size + ltx.size > targetTxsSize THEN "size"
                 ELSE IF ltx.protected /\ ~isEIP155 THEN "replay"
                 ELSE "none"
    IN  IF e.gasPool < TxGas
        THEN [step |-> "break", plainTxs |-> plain, blobTxs |-> blob,
              which |-> "none", tx |-> NoTx, reason |-> "none",
              cleared |-> FALSE]
        ELSE IF ltx.hash = "nil"
        THEN [step |-> "break", plainTxs |-> plain, blobTxs |-> blob1,
              which |-> "none", tx |-> NoTx, reason |-> "none",
              cleared |-> blob1 # blob]
        ELSE IF skip # "none"
        THEN [step |-> "pop",
              plainTxs |-> IF which = "plain" THEN Pop(plain) ELSE plain,
              blobTxs |-> IF which = "blob" THEN Pop(blob1) ELSE blob1,
              which |-> which, tx |-> ltx, reason |-> skip,
              cleared |-> blob1 # blob]
        ELSE [step |-> "execute", plainTxs |-> plain, blobTxs |-> blob1,
              which |-> which, tx |-> ltx, reason |-> "none",
              cleared |-> blob1 # blob]

\* commitTransactions without the check of the size budget
commitTransactionsSelect_NoSizeCheck(e, plain, blob, resolved, isEIP155) ==
    LET blob1 == IF ~Empty(blob)
                    /\ e.blobs * BlobTxBlobGasPerBlob >= MaxBlobGasPerBlock
                 THEN Clear(blob)
                 ELSE blob
        pltx  == Peek(plain)
        bltx  == Peek(blob1)
        which == IF pltx.hash = "nil" THEN "blob"
                 ELSE IF bltx.hash = "nil" THEN "plain"
                 ELSE IF pltx.tip < bltx.tip THEN "blob"
                 ELSE "plain"
        ltx   == IF which = "blob" THEN bltx ELSE pltx
        \* uint64(MaxBlobGasPerBlock - env.blobs*BlobTxBlobGasPerBlob): a
        \* negative difference converts to a value above every BlobGas
        diff  == MaxBlobGasPerBlock - e.blobs * BlobTxBlobGasPerBlob
        skip  == IF e.gasPool < LazyGas(ltx) THEN "gas"
                 ELSE IF diff >= 0 /\ diff < LazyBlobGas(ltx) THEN "blobGas"
                 ELSE IF ~resolved THEN "resolve"
                 ELSE IF ltx.protected /\ ~isEIP155 THEN "replay"
                 ELSE "none"
    IN  IF e.gasPool < TxGas
        THEN [step |-> "break", plainTxs |-> plain, blobTxs |-> blob,
              which |-> "none", tx |-> NoTx, reason |-> "none",
              cleared |-> FALSE]
        ELSE IF ltx.hash = "nil"
        THEN [step |-> "break", plainTxs |-> plain, blobTxs |-> blob1,
              which |-> "none", tx |-> NoTx, reason |-> "none",
              cleared |-> blob1 # blob]
        ELSE IF skip # "none"
        THEN [step |-> "pop",
              plainTxs |-> IF which = "plain" THEN Pop(plain) ELSE plain,
              blobTxs |-> IF which = "blob" THEN Pop(blob1) ELSE blob1,
              which |-> which, tx |-> ltx, reason |-> skip,
              cleared |-> blob1 # blob]
        ELSE [step |-> "execute", plainTxs |-> plain, blobTxs |-> blob1,
              which |-> which, tx |-> ltx, reason |-> "none",
              cleared |-> blob1 # blob]

\* commitTransactions choosing the blob head when the tips are equal
commitTransactionsSelect_BlobOnTie(e, plain, blob, resolved, isEIP155) ==
    LET blob1 == IF ~Empty(blob)
                    /\ e.blobs * BlobTxBlobGasPerBlob >= MaxBlobGasPerBlock
                 THEN Clear(blob)
                 ELSE blob
        pltx  == Peek(plain)
        bltx  == Peek(blob1)
        which == IF pltx.hash = "nil" THEN "blob"
                 ELSE IF bltx.hash = "nil" THEN "plain"
                 ELSE IF pltx.tip <= bltx.tip THEN "blob"
                 ELSE "plain"
        ltx   == IF which = "blob" THEN bltx ELSE pltx
        \* uint64(MaxBlobGasPerBlock - env.blobs*BlobTxBlobGasPerBlob): a
        \* negative difference converts to a value above every BlobGas
        diff  == MaxBlobGasPerBlock - e.blobs * BlobTxBlobGasPerBlob
        skip  == IF e.gasPool < LazyGas(ltx) THEN "gas"
                 ELSE IF diff >= 0 /\ diff < LazyBlobGas(ltx) THEN "blobGas"
                 ELSE IF ~resolved THEN "resolve"
                 ELSE IF e.size + ltx.size > targetTxsSize THEN "size"
                 ELSE IF ltx.protected /\ ~isEIP155 THEN "replay"
                 ELSE "none"
    IN  IF e.gasPool < TxGas
        THEN [step |-> "break", plainTxs |-> plain, blobTxs |-> blob,
              which |-> "none", tx |-> NoTx, reason |-> "none",
              cleared |-> FALSE]
        ELSE IF ltx.hash = "nil"
        THEN [step |-> "break", plainTxs |-> plain, blobTxs |-> blob1,
              which |-> "none", tx |-> NoTx, reason |-> "none",
              cleared |-> blob1 # blob]
        ELSE IF skip # "none"
        THEN [step |-> "pop",
              plainTxs |-> IF which = "plain" THEN Pop(plain) ELSE plain,
              blobTxs |-> IF which = "blob" THEN Pop(blob1) ELSE blob1,
              which |-> which, tx |-> ltx, reason |-> skip,
              cleared |-> blob1 # blob]
        ELSE [step |-> "execute", plainTxs |-> plain, blobTxs |-> blob1,
              which |-> which, tx |-> ltx, reason |-> "none",
              cleared |-> blob1 # blob]

\* the selection without the Clear of the blob merger
commitTransactionsSelect_NoClear(e, plain, blob, resolved, isEIP155) ==
    LET blob1 == blob
        pltx  == Peek(plain)
        bltx  == Peek(blob1)
        which == IF pltx.hash = "nil" THEN "blob"
                 ELSE IF bltx.hash = "nil" THEN "plain"
                 ELSE IF pltx.tip < bltx.tip THEN "blob"
                 ELSE "plain"
        ltx   == IF which = "blob" THEN bltx ELSE pltx
        \* uint64(MaxBlobGasPerBlock - env.blobs*BlobTxBlobGasPerBlob): a
        \* negative difference converts to a value above every BlobGas
        diff  == MaxBlobGasPerBlock - e.blobs * BlobTxBlobGasPerBlob
        skip  == IF e.gasPool < LazyGas(ltx) THEN "gas"
                 ELSE IF diff >= 0 /\ diff < LazyBlobGas(ltx) THEN "blobGas"
                 ELSE IF ~resolved THEN "resolve"
                 ELSE IF e.size + ltx.size > targetTxsSize THEN "size"
                 ELSE IF ltx.protected /\ ~isEIP155 THEN "replay"
                 ELSE "none"
    IN  IF e.gasPool < TxGas
        THEN [step |-> "break", plainTxs |-> plain, blobTxs |-> blob,
              which |-> "none", tx |-> NoTx, reason |-> "none",
              cleared |-> FALSE]
        ELSE IF ltx.hash = "nil"
        THEN [step |-> "break", plainTxs |-> plain, blobTxs |-> blob1,
              which |-> "none", tx |-> NoTx, reason |-> "none",
              cleared |-> blob1 # blob]
        ELSE IF skip # "none"
        THEN [step |-> "pop",
              plainTxs |-> IF which = "plain" THEN Pop(plain) ELSE plain,
              blobTxs |-> IF which = "blob" THEN Pop(blob1) ELSE blob1,
              which |-> which, tx |-> ltx, reason |-> skip,
              cleared |-> blob1 # blob]
        ELSE [step |-> "execute", plainTxs |-> plain, blobTxs |-> blob1,
              which |-> which, tx |-> ltx, reason |-> "none",
              cleared |-> blob1 # blob]

(***************************************************************************)
(* commitTransactions, one iteration up to the call of commitTransaction:  *)
(* the budget checks, the choice between the two mergers, the checks of    *)
(* the chosen transaction.  resolved: ltx.Resolve() returns the            *)
(* transaction.  step is what the iteration ends with: "break", "pop"      *)
(* (txs.Pop(); continue, tx being the transaction rejected and reason the  *)
(* check that rejected it) or "execute".                                   *)
(***************************************************************************)
commitTransactionsSelect(e, plain, blob, resolved, isEIP155) ==
    LET blob1 == IF ~Empty(blob)
                    /\ e.blobs * BlobTxBlobGasPerBlob >= MaxBlobGasPerBlock
                 THEN Clear(blob)
                 ELSE blob
        pltx  == Peek(plain)
        bltx  == Peek(blob1)
        which == IF pltx.hash = "nil" THEN "blob"
                 ELSE IF bltx.hash = "nil" THEN "plain"
                 ELSE IF pltx.tip < bltx.tip THEN "blob"
                 ELSE "plain"
        ltx   == IF which = "blob" THEN bltx ELSE pltx
        \* uint64(MaxBlobGasPerBlock - env.blobs*BlobTxBlobGasPerBlob): a
        \* negative difference converts to a value above every BlobGas
        diff  == MaxBlobGasPerBlock - e.blobs * BlobTxBlobGasPerBlob
        skip  == IF e.gasPool < LazyGas(ltx) THEN "gas"
                 ELSE IF diff >= 0 /\ diff < LazyBlobGas(ltx) THEN "blobGas"
                 ELSE IF ~resolved THEN "resolve"
                 ELSE IF e.size + ltx.size > targetTxsSize THEN "size"
                 ELSE IF ltx.protected /\ ~isEIP155 THEN "replay"
                 ELSE "none"
    IN  IF e.gasPool < TxGas
        THEN [step |-> "break", plainTxs |-> plain, blobTxs |-> blob,
              which |-> "none", tx |-> NoTx, reason |-> "none",
              cleared |-> FALSE]
        ELSE IF ltx.hash = "nil"
        THEN [step |-> "break", plainTxs |-> plain, blobTxs |-> blob1,
              which |-> "none", tx |-> NoTx, reason |-> "none",
              cleared |-> blob1 # blob]
        ELSE IF skip # "none"
        THEN [step |-> "pop",
              plainTxs |-> IF which = "plain" THEN Pop(plain) ELSE plain,
              blobTxs |-> IF which = "blob" THEN Pop(blob1) ELSE blob1,
              which |-> which, tx |-> ltx, reason |-> skip,
              cleared |-> blob1 # blob]
        ELSE [step |-> "execute", plainTxs |-> plain, blobTxs |-> blob1,
              which |-> which, tx |-> ltx, reason |-> "none",
              cleared |-> blob1 # blob]

\* no environment was created: no state was opened and no prefetcher started
NoEnvironment ==
    [createCurrentEnvironment(0, FALSE) EXCEPT !.state.prefetcher = "none"]

NoCall == [called |-> FALSE, applied |-> FALSE, tx |-> NoTx, err |-> "nil",
           dirty |-> FALSE, env |-> NoEnvironment]

NoCur == [which |-> "none", tx |-> NoTx]

\* nothing observed yet.  locals: TxPool.Locals(); popped: the Pop calls, each
\* with the pass, the merger, the sender and the reason; cleared: the passes
\* that called Clear on the blob merger
\* no header was built yet
NoHeader == [ParentHash |-> "none", Number |-> 0, GasLimit |-> 0, Time |-> 0]
NoBlock == [Hash |-> "none", Number |-> 0, Time |-> 0]

\* exit: the return commitNewWork took ("none": it has not returned)
NothingObserved ==
    [locals |-> {}, popped |-> {}, cleared |-> {},
     built |-> [parent |-> NoBlock, unix |-> 0, header |-> NoHeader],
     exit |-> "none"]

\* common.Address{} and the addresses setEtherbase is given
ZeroAddress == "0x0"
Addresses == {"0xa"}

\* the calls of commitNewWork that can fail before the commit loop: "none"
\* or the call that returns an error
BuildFailures == {"none", "CalcBaseFee", "Prepare", "StateAt", "ApplyUpgrades"}

\* env.state.StopPrefetcher(), deferred by commitNewWork
StopPrefetcher(state) == [state EXCEPT !.prefetcher = "stopped"]

\* w.mu.RLock() / w.mu.RUnlock(), w.mu.Lock() / w.mu.Unlock()
CanRLock(m) == ~m.writer
RLock(m) == [m EXCEPT !.readers = @ + 1]
RUnlock(m) == [m EXCEPT !.readers = @ - 1]
CanLock(m) == ~m.writer /\ m.readers = 0
Lock(m) == [m EXCEPT !.writer = TRUE]
Unlock(m) == [m EXCEPT !.writer = FALSE]

ObserveClear == [observed EXCEPT !.cleared = @ \cup {pass}]

\* a Pop of the sender of tx: behind counts the sender's transactions that
\* were queued after tx and leave the merger with it
ObservePop(which, tx, reason) ==
    LET txs == IF which = "plain" THEN plainTxs ELSE blobTxs
    IN  [observed EXCEPT !.popped =
            @ \cup {[pass |-> pass, which |-> which, from |-> tx.from,
                     reason |-> reason, behind |-> Len(txs[tx.from]) - 1]}]

WorkerInit ==
    /\ wpc = "start"
    /\ pass = "none"
    /\ chainConfig = [IsEIP155 |-> FALSE, IsCortina |-> FALSE, IsDurango |-> FALSE]
    /\ env = NoEnvironment
    /\ plainTxs = EmptyTxs
    /\ blobTxs = EmptyTxs
    /\ remoteTxs = [plain |-> EmptyTxs, blob |-> EmptyTxs]
    /\ cur = NoCur
    /\ last = NoCall
    /\ observed = NothingObserved
    /\ mu = [readers |-> 0, writer |-> FALSE]
    /\ coinbase = ZeroAddress

(***************************************************************************)
(* The header of commitNewWork.  Times are unix seconds; TimeBits narrows  *)
(* the 64 bits of the timestamp.  The clock reads a time after the epoch.  *)
(***************************************************************************)
TimeBits == 3
MaxParentNumber == 2

\* uint64(tstart.Unix())
Uint64(x) == x % (2 ^ TimeBits)

\* w.chain.CurrentBlock(): the parents the chain can hand out
Blocks ==
    {[Hash |-> <<"block", n, tm>>, Number |-> n, Time |-> tm] :
        n \in 0..MaxParentNumber, tm \in 0..(2 ^ TimeBits - 1)}

\* w.clock.Time().Unix()
ClockReads == 0..(2 ^ TimeBits - 1)

\* the timestamp taken from the clock whatever the parent's
newHeader_ClockOnly(parent, unix, config) ==
    [ParentHash |-> parent.Hash,
     Number |-> parent.Number + 1,
     GasLimit |-> IF config.IsCortina THEN CortinaGasLimit
                  ELSE ApricotPhase1GasLimit,
     Time |-> Uint64(unix)]

newHeader(parent, unix, config) ==
    LET tstamp    == Uint64(unix)
        timestamp == IF parent.Time >= tstamp THEN parent.Time ELSE tstamp
        gasLimit  == IF config.IsCortina THEN CortinaGasLimit
                     ELSE ApricotPhase1GasLimit
    IN  [ParentHash |-> parent.Hash,
         Number |-> parent.Number + 1,
         GasLimit |-> gasLimit,
         Time |-> timestamp]

\* the parent and the clock of the block assemblies explored transaction by
\* transaction; NewHeaderCall explores the others
CurrentBlock == [Hash |-> <<"block", 0, 0>>, Number |-> 0, Time |-> 0]
tstart == 1

\* the split handing the remote accounts to the first pass
commitNewWork_RemotesFirst ==
    /\ wpc = "start"
    /\ CanRLock(mu)
    /\ \E config \in ChainConfigs, failure \in BuildFailures,
          locals \in Locals,
          pendingPlainTxs \in Pending(PoolPlain),
          pendingBlobTxs \in Pending(PoolBlob) :
         LET header   == newHeader(CurrentBlock, tstart, config)
             gasLimit == header.GasLimit
             Split(pending, local) ==
                 [a \in Accounts |->
                     IF (a \in locals) # local THEN pending[a] ELSE <<>>]
             localPlainTxs  == Split(pendingPlainTxs, TRUE)
             remotePlainTxs == Split(pendingPlainTxs, FALSE)
             localBlobTxs   == Split(pendingBlobTxs, TRUE)
             remoteBlobTxs  == Split(pendingBlobTxs, FALSE)
             anyLocal  == ~Empty(localPlainTxs) \/ ~Empty(localBlobTxs)
             anyRemote == ~Empty(remotePlainTxs) \/ ~Empty(remoteBlobTxs)
             \* the first return before the environment exists, if any
             early    == IF failure = "CalcBaseFee" THEN "CalcBaseFee"
                         ELSE IF coinbase = ZeroAddress THEN "etherbase"
                         ELSE IF failure \in {"Prepare", "StateAt"} THEN failure
                         ELSE "none"
         IN  IF early # "none"
             THEN /\ wpc' = "failed"
                  /\ observed' = [observed EXCEPT !.exit = early]
                  /\ UNCHANGED <<pass, chainConfig, env, plainTxs, blobTxs, remoteTxs,
                                 mu>>
             ELSE IF failure = "ApplyUpgrades"
             THEN /\ wpc' = "failed"
                  /\ observed' = [observed EXCEPT !.exit = failure]
                  /\ env' = [createCurrentEnvironment(gasLimit, config.IsDurango)
                               EXCEPT !.state = StopPrefetcher(@)]
                  /\ UNCHANGED <<pass, chainConfig, plainTxs, blobTxs, remoteTxs, mu>>
             ELSE /\ chainConfig' = config
                  /\ mu' = RLock(mu)
                  /\ observed' = [observed EXCEPT
                        !.locals = locals,
                        !.built = [parent |-> CurrentBlock, unix |-> tstart,
                                   header |-> header]]
                  /\ env' = createCurrentEnvironment(gasLimit, config.IsDurango)
                  /\ remoteTxs' = [plain |-> remotePlainTxs, blob |-> remoteBlobTxs]
                  /\ IF anyLocal
                     THEN /\ plainTxs' = newTransactionsByPriceAndNonce(localPlainTxs)
                          /\ blobTxs' = newTransactionsByPriceAndNonce(localBlobTxs)
                          /\ pass' = "local"
                          /\ wpc' = "loop"
                     ELSE IF anyRemote
                     THEN /\ plainTxs' = newTransactionsByPriceAndNonce(remotePlainTxs)
                          /\ blobTxs' = newTransactionsByPriceAndNonce(remoteBlobTxs)
                          /\ pass' = "remote"
                          /\ wpc' = "loop"
                     ELSE /\ UNCHANGED <<plainTxs, blobTxs, pass>>
                          /\ wpc' = "commit"
    /\ UNCHANGED <<cur, last, coinbase>>
    /\ UNCHANGED netVars

(***************************************************************************)
(* commitNewWork up to the first commitTransactions: the header, the       *)
(* environment, the pending transactions and their split into locals and   *)
(* remotes.  The networks modelled are past ApricotPhase1.                  *)
(***************************************************************************)
commitNewWork ==
    /\ wpc = "start"
    /\ CanRLock(mu)
    /\ \E config \in ChainConfigs, failure \in BuildFailures,
          locals \in Locals,
          pendingPlainTxs \in Pending(PoolPlain),
          pendingBlobTxs \in Pending(PoolBlob) :
         LET header   == newHeader(CurrentBlock, tstart, config)
             gasLimit == header.GasLimit
             Split(pending, local) ==
                 [a \in Accounts |->
                     IF (a \in locals) = local THEN pending[a] ELSE <<>>]
             localPlainTxs  == Split(pendingPlainTxs, TRUE)
             remotePlainTxs == Split(pendingPlainTxs, FALSE)
             localBlobTxs   == Split(pendingBlobTxs, TRUE)
             remoteBlobTxs  == Split(pendingBlobTxs, FALSE)
             anyLocal  == ~Empty(localPlainTxs) \/ ~Empty(localBlobTxs)
             anyRemote == ~Empty(remotePlainTxs) \/ ~Empty(remoteBlobTxs)
             \* the first return before the environment exists, if any
             early    == IF failure = "CalcBaseFee" THEN "CalcBaseFee"
                         ELSE IF coinbase = ZeroAddress THEN "etherbase"
                         ELSE IF failure \in {"Prepare", "StateAt"} THEN failure
                         ELSE "none"
         IN  IF early # "none"
             THEN /\ wpc' = "failed"
                  /\ observed' = [observed EXCEPT !.exit = early]
                  /\ UNCHANGED <<pass, chainConfig, env, plainTxs, blobTxs, remoteTxs,
                                 mu>>
             ELSE IF failure = "ApplyUpgrades"
             THEN /\ wpc' = "failed"
                  /\ observed' = [observed EXCEPT !.exit = failure]
                  /\ env' = [createCurrentEnvironment(gasLimit, config.IsDurango)
                               EXCEPT !.state = StopPrefetcher(@)]
                  /\ UNCHANGED <<pass, chainConfig, plainTxs, blobTxs, remoteTxs, mu>>
             ELSE /\ chainConfig' = config
                  /\ mu' = RLock(mu)
                  /\ observed' = [observed EXCEPT
                        !.locals = locals,
                        !.built = [parent |-> CurrentBlock, unix |-> tstart,
                                   header |-> header]]
                  /\ env' = createCurrentEnvironment(gasLimit, config.IsDurango)
                  /\ remoteTxs' = [plain |-> remotePlainTxs, blob |-> remoteBlobTxs]
                  /\ IF anyLocal
                     THEN /\ plainTxs' = newTransactionsByPriceAndNonce(localPlainTxs)
                          /\ blobTxs' = newTransactionsByPriceAndNonce(localBlobTxs)
                          /\ pass' = "local"
                          /\ wpc' = "loop"
                     ELSE IF anyRemote
                     THEN /\ plainTxs' = newTransactionsByPriceAndNonce(remotePlainTxs)
                          /\ blobTxs' = newTransactionsByPriceAndNonce(remoteBlobTxs)
                          /\ pass' = "remote"
                          /\ wpc' = "loop"
                     ELSE /\ UNCHANGED <<plainTxs, blobTxs, pass>>
                          /\ wpc' = "commit"
    /\ UNCHANGED <<cur, last, coinbase>>
    /\ UNCHANGED netVars

(***************************************************************************)
(* One iteration of commitTransactions up to SetTxContext.  A break ends   *)
(* the pass: the remote pass follows the local one, commit follows the     *)
(* last pass.                                                              *)
(***************************************************************************)
SelectTransaction ==
    /\ wpc = "loop"
    /\ \E resolved \in BOOLEAN :
         LET s == commitTransactionsSelect(env, plainTxs, blobTxs, resolved,
                                           chainConfig.IsEIP155)
         IN  IF s.step = "break"
             THEN /\ IF pass = "local"
                        /\ (~Empty(remoteTxs.plain) \/ ~Empty(remoteTxs.blob))
                     THEN /\ plainTxs' = newTransactionsByPriceAndNonce(remoteTxs.plain)
                          /\ blobTxs' = newTransactionsByPriceAndNonce(remoteTxs.blob)
                          /\ pass' = "remote"
                          /\ wpc' = "loop"
                     ELSE /\ plainTxs' = s.plainTxs
                          /\ blobTxs' = s.blobTxs
                          /\ pass' = "none"
                          /\ wpc' = "commit"
                  /\ UNCHANGED <<env, cur>>
                  /\ observed' = IF s.cleared THEN ObserveClear ELSE observed
             ELSE IF s.step = "pop"
             THEN /\ plainTxs' = s.plainTxs
                  /\ blobTxs' = s.blobTxs
                  /\ observed' =
                        LET o == IF s.cleared THEN ObserveClear ELSE observed
                        IN  [o EXCEPT !.popped =
                                ObservePop(s.which, s.tx, s.reason).popped]
                  /\ UNCHANGED <<wpc, pass, env, cur>>
             ELSE /\ observed' = IF s.cleared THEN ObserveClear ELSE observed
                  /\ plainTxs' = s.plainTxs
                  /\ blobTxs' = s.blobTxs
                  /\ env' = [env EXCEPT
                               !.state = SetTxContext(@, s.tx.hash, env.tcount)]
                  /\ cur' = [which |-> s.which, tx |-> s.tx]
                  /\ wpc' = "execute"
                  /\ UNCHANGED pass
    /\ UNCHANGED <<chainConfig, remoteTxs, last>>
    /\ UNCHANGED <<netVars, lockVars>>

\* the switch on the error counting a stale transaction as included
ExecuteTransaction_CountsStale ==
    /\ wpc = "execute"
    /\ \E o \in Outcomes(env.rules.IsDurango, cur.tx) :
         LET r == commitTransaction(env, cur.tx, o)
             consumed == r.err \in {"nil", "ErrNonceTooLow"}
         IN  /\ env' = IF consumed THEN [r.env EXCEPT !.tcount = @ + 1]
                       ELSE r.env
             /\ plainTxs' = IF cur.which # "plain" THEN plainTxs
                            ELSE IF consumed THEN Shift(plainTxs)
                            ELSE Pop(plainTxs)
             /\ blobTxs' = IF cur.which # "blob" THEN blobTxs
                           ELSE IF consumed THEN Shift(blobTxs)
                           ELSE Pop(blobTxs)
             /\ last' = [called |-> TRUE,
                         applied |-> r.err # "max data blobs reached",
                         tx |-> cur.tx, err |-> r.err,
                         dirty |-> o.apply # "nil" /\ o.predicate = "ok" /\ o.dirty,
                         env |-> env]
             /\ observed' = IF consumed THEN observed
                            ELSE ObservePop(cur.which, cur.tx, "error")
    /\ cur' = NoCur
    /\ wpc' = "loop"
    /\ UNCHANGED <<pass, chainConfig, remoteTxs>>
    /\ UNCHANGED <<netVars, lockVars>>

\* the switch on the error popping the sender of a stale transaction
ExecuteTransaction_PopOnNonceTooLow ==
    /\ wpc = "execute"
    /\ \E o \in Outcomes(env.rules.IsDurango, cur.tx) :
         LET r == commitTransaction(env, cur.tx, o)
             consumed == r.err = "nil"
         IN  /\ env' = IF r.err = "nil" THEN [r.env EXCEPT !.tcount = @ + 1]
                       ELSE r.env
             /\ plainTxs' = IF cur.which # "plain" THEN plainTxs
                            ELSE IF consumed THEN Shift(plainTxs)
                            ELSE Pop(plainTxs)
             /\ blobTxs' = IF cur.which # "blob" THEN blobTxs
                           ELSE IF consumed THEN Shift(blobTxs)
                           ELSE Pop(blobTxs)
             /\ last' = [called |-> TRUE,
                         applied |-> r.err # "max data blobs reached",
                         tx |-> cur.tx, err |-> r.err,
                         dirty |-> o.apply # "nil" /\ o.predicate = "ok" /\ o.dirty,
                         env |-> env]
             /\ observed' = IF consumed THEN observed
                            ELSE ObservePop(cur.which, cur.tx, "error")
    /\ cur' = NoCur
    /\ wpc' = "loop"
    /\ UNCHANGED <<pass, chainConfig, remoteTxs>>
    /\ UNCHANGED <<netVars, lockVars>>

\* the switch on the error shifting where the code pops
ExecuteTransaction_ShiftOnError ==
    /\ wpc = "execute"
    /\ \E o \in Outcomes(env.rules.IsDurango, cur.tx) :
         LET r == commitTransaction(env, cur.tx, o)
             consumed == r.err \in {"nil", "ErrNonceTooLow"}
         IN  /\ env' = IF r.err = "nil" THEN [r.env EXCEPT !.tcount = @ + 1]
                       ELSE r.env
             /\ plainTxs' = IF cur.which # "plain" THEN plainTxs
                            ELSE IF TRUE THEN Shift(plainTxs)
                            ELSE Pop(plainTxs)
             /\ blobTxs' = IF cur.which # "blob" THEN blobTxs
                           ELSE IF TRUE THEN Shift(blobTxs)
                           ELSE Pop(blobTxs)
             /\ last' = [called |-> TRUE,
                         applied |-> r.err # "max data blobs reached",
                         tx |-> cur.tx, err |-> r.err,
                         dirty |-> o.apply # "nil" /\ o.predicate = "ok" /\ o.dirty,
                         env |-> env]
             /\ observed' = IF consumed THEN observed
                            ELSE ObservePop(cur.which, cur.tx, "error")
    /\ cur' = NoCur
    /\ wpc' = "loop"
    /\ UNCHANGED <<pass, chainConfig, remoteTxs>>
    /\ UNCHANGED <<netVars, lockVars>>

\* a stale transaction left at the head of its merger
ExecuteTransaction_StaleStays ==
    /\ wpc = "execute"
    /\ \E o \in Outcomes(env.rules.IsDurango, cur.tx) :
         LET r == commitTransaction(env, cur.tx, o)
             consumed == r.err \in {"nil", "ErrNonceTooLow"}
         IN  /\ env' = IF r.err = "nil" THEN [r.env EXCEPT !.tcount = @ + 1]
                       ELSE r.env
             /\ plainTxs' = IF cur.which # "plain" THEN plainTxs
                            ELSE IF r.err = "ErrNonceTooLow" THEN plainTxs
                            ELSE IF consumed THEN Shift(plainTxs)
                            ELSE Pop(plainTxs)
             /\ blobTxs' = IF cur.which # "blob" THEN blobTxs
                           ELSE IF r.err = "ErrNonceTooLow" THEN blobTxs
                            ELSE IF consumed THEN Shift(blobTxs)
                           ELSE Pop(blobTxs)
             /\ last' = [called |-> TRUE,
                         applied |-> r.err # "max data blobs reached",
                         tx |-> cur.tx, err |-> r.err,
                         dirty |-> o.apply # "nil" /\ o.predicate = "ok" /\ o.dirty,
                         env |-> env]
             /\ observed' = IF consumed THEN observed
                            ELSE ObservePop(cur.which, cur.tx, "error")
    /\ cur' = NoCur
    /\ wpc' = "loop"
    /\ UNCHANGED <<pass, chainConfig, remoteTxs>>
    /\ UNCHANGED <<netVars, lockVars>>

(***************************************************************************)
(* The rest of the iteration: commitTransaction and the switch on its      *)
(* error.                                                                  *)
(***************************************************************************)
ExecuteTransaction ==
    /\ wpc = "execute"
    /\ \E o \in Outcomes(env.rules.IsDurango, cur.tx) :
         LET r == commitTransaction(env, cur.tx, o)
             consumed == r.err \in {"nil", "ErrNonceTooLow"}
         IN  /\ env' = IF r.err = "nil" THEN [r.env EXCEPT !.tcount = @ + 1]
                       ELSE r.env
             /\ plainTxs' = IF cur.which # "plain" THEN plainTxs
                            ELSE IF consumed THEN Shift(plainTxs)
                            ELSE Pop(plainTxs)
             /\ blobTxs' = IF cur.which # "blob" THEN blobTxs
                           ELSE IF consumed THEN Shift(blobTxs)
                           ELSE Pop(blobTxs)
             /\ last' = [called |-> TRUE,
                         applied |-> r.err # "max data blobs reached",
                         tx |-> cur.tx, err |-> r.err,
                         dirty |-> o.apply # "nil" /\ o.predicate = "ok" /\ o.dirty,
                         env |-> env]
             /\ observed' = IF consumed THEN observed
                            ELSE ObservePop(cur.which, cur.tx, "error")
    /\ cur' = NoCur
    /\ wpc' = "loop"
    /\ UNCHANGED <<pass, chainConfig, remoteTxs>>
    /\ UNCHANGED <<netVars, lockVars>>

\* commit whose duplicate-block return leaves the prefetcher running
commit_DuplicateSkipsStop ==
    /\ wpc = "commit"
    /\ \E exit \in {"FinalizeAndAssemble", "duplicate", "ok"} :
         /\ wpc' = IF exit = "ok" THEN "done" ELSE "failed"
         /\ observed' = [observed EXCEPT !.exit = exit]
         /\ env' = IF exit = "duplicate" THEN env
                   ELSE [env EXCEPT !.state = StopPrefetcher(@)]
    /\ mu' = RUnlock(mu)
    /\ UNCHANGED <<pass, chainConfig, plainTxs, blobTxs, remoteTxs, cur, last,
                   coinbase>>
    /\ UNCHANGED netVars

(***************************************************************************)
(* commit: the block is assembled from the environment; the engine may     *)
(* refuse it.                                                              *)
(***************************************************************************)
commit ==
    /\ wpc = "commit"
    /\ \E exit \in {"FinalizeAndAssemble", "duplicate", "ok"} :
         /\ wpc' = IF exit = "ok" THEN "done" ELSE "failed"
         /\ observed' = [observed EXCEPT !.exit = exit]
    /\ env' = [env EXCEPT !.state = StopPrefetcher(@)]
    /\ mu' = RUnlock(mu)
    /\ UNCHANGED <<pass, chainConfig, plainTxs, blobTxs, remoteTxs, cur, last,
                   coinbase>>
    /\ UNCHANGED netVars

(***************************************************************************)
(* setEtherbase: the store of the coinbase between w.mu.Lock() and the     *)
(* deferred w.mu.Unlock().  No other operation runs while the write lock   *)
(* is held, so the call is one step, taken when the lock can be had.       *)
(***************************************************************************)
setEtherbase ==
    /\ CanLock(mu)
    /\ \E addr \in Addresses : coinbase' = addr
    /\ mu' = Unlock(Lock(mu))
    /\ UNCHANGED <<wpc, pass, chainConfig, env, plainTxs, blobTxs, remoteTxs, cur,
                   last, observed>>
    /\ UNCHANGED netVars

\* the network and the worker as constructed
Init == NetInit /\ WorkerInit

WorkerNext ==
    \/ commitNewWork
    \/ SelectTransaction
    \/ ExecuteTransaction
    \/ commit
    \/ setEtherbase

(***************************************************************************)
(* The request lifecycle: sends, responses, failures, peers, Shutdown.     *)
(***************************************************************************)
NetNext ==
    \E t \in Threads :
        \/ SendAppRequest(t)
        \/ SendAppRequestAny(t)
        \/ Acquire(t)
        \/ SendAppRequestLocked(t)
        \/ SendAppRequestAnyLocked(t)
        \/ AppResponse(t)
        \/ AppRequestFailed(t)
        \/ ReleaseSlot(t)
        \/ Callback(t)
        \/ Forward(t)
        \/ Shutdown(t)
        \/ ShutdownLoop(t)
        \/ ShutdownFinish(t)
        \/ Connected(t)
        \/ Disconnected(t)
        \/ Return(t)

SpecNet == Init /\ [][NetNext]_vars

(***************************************************************************)
(* Every operation of the network, the inbound AppRequest and AppGossip    *)
(* included.                                                               *)
(***************************************************************************)
NetAllNext ==
    \/ NetNext
    \/ \E t \in Threads :
        \/ AppRequest(t)
        \/ HandleRequest(t)
        \/ AppGossip(t)

SpecNetAll == Init /\ [][NetAllNext]_vars

(***************************************************************************)
(* The request lifecycle with the locked part of the sends step by step.   *)
(***************************************************************************)
SendOrderNext ==
    \E t \in Threads :
        \/ SendAppRequest(t)
        \/ SendAppRequestAny(t)
        \/ Acquire(t)
        \/ RegisterHandler(t)
        \/ InvokeSend(t)
        \/ SendReturns(t)
        \/ AppResponse(t)
        \/ AppRequestFailed(t)
        \/ ReleaseSlot(t)
        \/ Callback(t)
        \/ Forward(t)
        \/ Shutdown(t)
        \/ ShutdownLoop(t)
        \/ ShutdownFinish(t)
        \/ Connected(t)
        \/ Disconnected(t)
        \/ Return(t)

SpecSendOrder == Init /\ [][SendOrderNext]_vars

(***************************************************************************)
(* The inbound requests of a network with no request of its own in        *)
(* flight, which may be shut down meanwhile.                               *)
(***************************************************************************)
InboundNext ==
    \E t \in Threads :
        \/ AppRequest(t)
        \/ HandleRequest(t)
        \/ AppGossip(t)
        \/ SetHandler(t)
        \/ StoreHandler(t)
        \/ Shutdown(t)
        \/ ShutdownFinish(t)
        \/ Connected(t)
        \/ Disconnected(t)
        \/ Return(t)

SpecInbound == Init /\ [][InboundNext]_vars

(***************************************************************************)
(* nextRequestID on its own: the calls of a network that keeps sending.    *)
(***************************************************************************)
NextRequestIDCall ==
    /\ LET r == nextRequestID(requestIDGen)
       IN  /\ requestIDGen' = r.gen
           /\ issued' = [prev |-> issued.last, last |-> r.id]
    /\ UNCHANGED <<lock, closed, outstandingRequestHandlers, acquired, released,
                   peers, trackedPeers, thread, netObservations, workerVars,
                   slots>>

SpecRequestIDs == Init /\ [][NextRequestIDCall]_vars

(***************************************************************************)
(* A network that keeps sending until its counter has gone once around:    *)
(* it is constructed with room for ReuseCapacity requests, every call of   *)
(* SendAppRequest has a live context and a sender that accepts the         *)
(* request, and the bus answers the outstanding requests in any order, or  *)
(* not yet.  Each call runs from its first line to its return in one step. *)
(***************************************************************************)
\* capacity handed to NewNetwork (maxActiveAppRequests) for this network
ReuseCapacity == 2

\* the calls of SendAppRequest that take the counter once around and one
\* step further
WrapSends == 2 ^ (RequestIDBits - 1) + 1

\* SendAppRequest(ctx, A, request, handler) returning nil: the first call
\* passes handler 1, the later ones handler 2
SendAppRequestAccepted ==
    /\ ~closed
    /\ lock = "none"
    /\ acquired < WrapSends
    /\ PermitsHeld < ReuseCapacity
    /\ LET next    == nextRequestID(requestIDGen)
           handler == IF handlerGen = 0 THEN 1 ELSE 2
       IN  /\ acquired' = acquired + 1
           /\ handlerGen' = handlerGen + 1
           /\ trackedPeers' = trackedPeers \cup {"A"}
           /\ requestIDGen' = next.gen
           /\ outstandingRequestHandlers' =
                  MapPut(outstandingRequestHandlers, next.id, handler)
           /\ registered' = MapPut(registered, next.id, handler)
           /\ sentRequests' = sentRequests \cup {next.id}
           /\ issued' = [prev |-> issued.last, last |-> next.id]
    /\ UNCHANGED <<lock, closed, released, peers, thread, deliveries, onResponse,
                   onFailure, shutdownFailed, underLock, fulfilled, responseReleased,
                   forwarded, inbound>>
    /\ UNCHANGED <<workerVars, slots>>

\* AppResponse for an outstanding request: markRequestFulfilled, Release,
\* OnResponse
AppResponseHandled ==
    /\ lock = "none"
    /\ \E requestID \in DOMAIN outstandingRequestHandlers :
         LET r == markRequestFulfilled(outstandingRequestHandlers, requestID)
         IN  /\ outstandingRequestHandlers' = r.outstanding
             /\ released' = released + 1
             /\ deliveries' = deliveries + 1
             /\ fulfilled' = Inc(fulfilled, requestID)
             /\ responseReleased' = Inc(responseReleased, requestID)
             /\ onResponse' = [onResponse EXCEPT ![r.handler] = @ + 1]
    /\ UNCHANGED <<lock, closed, requestIDGen, acquired, peers, trackedPeers, thread,
                   handlerGen, registered, sentRequests, onFailure, shutdownFailed,
                   underLock, forwarded, inbound>>
    /\ UNCHANGED <<workerVars, issued, slots>>

RequestIDReuseNext ==
    \/ SendAppRequestAccepted
    \/ AppResponseHandled

SpecRequestIDReuse == Init /\ [][RequestIDReuseNext]_vars

(***************************************************************************)
(* The header of commitNewWork on its own: every parent, every reading of  *)
(* the clock, every configuration.                                         *)
(***************************************************************************)
NewHeaderCall ==
    /\ wpc = "start"
    /\ \E parent \in Blocks, unix \in ClockReads, config \in ChainConfigs :
         observed' = [observed EXCEPT
                         !.built = [parent |-> parent, unix |-> unix,
                                    header |-> newHeader(parent, unix, config)]]
    /\ UNCHANGED <<wpc, pass, chainConfig, env, plainTxs, blobTxs, remoteTxs, cur,
                   last>>
    /\ UNCHANGED <<netVars, lockVars>>

SpecHeader == Init /\ [][NewHeaderCall]_vars

(***************************************************************************)
(* Block assembly on its own.                                              *)
(***************************************************************************)
SpecWorker == Init /\ [][WorkerNext]_vars

(***************************************************************************)
(* Properties of the network.                                              *)
(***************************************************************************)
\* threads that hold a permit for a request that is not (or no longer) in
\* outstandingRequestHandlers: a send between Acquire and the registration,
\* a response between markRequestFulfilled and Release
PermitsInTransit ==
    Cardinality({t \in Threads : thread[t].pc \in {"lock", "release"}})

Outstanding == DOMAIN outstandingRequestHandlers

\* threads running AppResponse / AppRequestFailed for requestID at one of pcs
Fulfilling(requestID, pcs) ==
    {t \in Threads : /\ thread[t].op \in {"AppResponse", "AppRequestFailed"}
                     /\ thread[t].requestID = requestID
                     /\ thread[t].pc \in pcs}

\* callbacks handler got from AppResponse / AppRequestFailed
ResponseCallbacks(handler) ==
    onResponse[handler] + onFailure[handler] - shutdownFailed[handler]

\* C1: once Shutdown has run (closed is set) and no call is in transit with a
\* permit of its own, no permit of the semaphore is held.
C1_ShutdownReturnsPermits ==
    (closed /\ PermitsInTransit = 0) => PermitsHeld = 0

\* C2: at a lock boundary (no thread holds the lock, no request is being
\* registered or released) the permits held are as many as the outstanding
\* handlers.
C2_PermitsMatchOutstanding ==
    (lock = "none" /\ PermitsInTransit = 0) => PermitsHeld = Cardinality(Outstanding)

\* C3: when Shutdown has returned, outstandingRequestHandlers is empty and every
\* handler that was in it when Shutdown took the lock got exactly one OnFailure
\* from Shutdown.
C3_ShutdownDrains ==
    \A t \in Threads :
        (thread[t].op = "Shutdown" /\ thread[t].pc = "done") =>
            /\ Outstanding = {}
            /\ \A h \in thread[t].seen : shutdownFailed[h] = 1

\* a Shutdown that found a handler outstanding has returned
C3_Witness ==
    \E t \in Threads :
        /\ thread[t].op = "Shutdown" /\ thread[t].pc = "done"
        /\ thread[t].seen # {}

\* C4: of the AppResponse / AppRequestFailed calls for the id of a sent request
\* at most one finds the handler (the first to look it up); that call removes
\* the handler, releases exactly one permit and makes exactly one callback
\* (OnResponse when it is AppResponse); every other call finds the handler gone,
\* makes no callback, releases nothing and forwards to p2pNetwork.
C4_FirstResponseOnly ==
    /\ \A id \in sentRequests :
        LET h == registered[id]
        IN  /\ MapGet(fulfilled, id, 0) <= 1
            /\ MapGet(responseReleased, id, 0)
                 + Cardinality(Fulfilling(id, {"release"})) = MapGet(fulfilled, id, 0)
            /\ ResponseCallbacks(h)
                 + Cardinality(Fulfilling(id, {"release", "callback"}))
                 = MapGet(fulfilled, id, 0)
            /\ (MapGet(forwarded, id, 0) + Cardinality(Fulfilling(id, {"forward"})) > 0)
                 => id \notin Outstanding
    /\ \A t \in Threads :
        (thread[t].pc = "done" /\ thread[t].op \in {"AppResponse", "AppRequestFailed"}) =>
            IF thread[t].handler # NoHandler
            THEN /\ thread[t].requestID \notin Outstanding
                 /\ responseReleased[thread[t].requestID] = 1
                 /\ thread[t].op = "AppResponse" => onResponse[thread[t].handler] = 1
            ELSE MapGet(forwarded, thread[t].requestID, 0) >= 1

\* a response was delivered to its handler and a later one for the same id was
\* forwarded
C4_Witness ==
    \E id \in sentRequests :
        /\ MapGet(fulfilled, id, 0) = 1
        /\ onResponse[registered[id]] = 1
        /\ MapGet(forwarded, id, 0) = 1

\* C5: a handler gets at most one callback in total, OnResponse or OnFailure.
C5_AtMostOneCallback ==
    \A h \in Handlers : onResponse[h] + onFailure[h] <= 1

\* Shutdown ran while a response was on its way to its handler: the handler
\* got the response, and Shutdown failed another one
C5_Witness ==
    /\ closed
    /\ \E h \in Handlers : onResponse[h] = 1
    /\ \E h \in Handlers : shutdownFailed[h] = 1

\* C6: Release(1) is never called more often than Acquire(1) succeeded, and the
\* permits held stay within 0..capacity.
C6_NoDoubleRelease ==
    /\ released <= acquired
    /\ PermitsHeld >= 0
    /\ PermitsHeld <= MaxActiveAppRequests

\* two permits were acquired and both were released
C6_Witness ==
    /\ released >= 2
    /\ PermitsHeld = 0

\* C7: once closed is set, a call that begins is a no-op: it calls no gossip or
\* request handler, forwards nothing to p2pNetwork, and leaves outstanding and
\* peers unchanged.
C7_ClosedCallsAreNoOps ==
    [][closed =>
         /\ inbound'.gossipHandled = inbound.gossipHandled
         /\ inbound'.gossipForwarded = inbound.gossipForwarded
         /\ peers' = peers
         /\ outstandingRequestHandlers' = outstandingRequestHandlers
         /\ \A t \in Threads :
              (thread[t].pc = "idle" /\ thread'[t].pc # "idle") =>
                  /\ thread'[t].pc # "forward"
                  /\ thread'[t].pc # "handleRequest"]_vars

(***************************************************************************)
(* Properties of block assembly.                                           *)
(***************************************************************************)
\* the last commitTransaction call reached applyTransaction, which returned
\* an error
ApplyFailed == last.called /\ last.applied /\ last.err # "nil"

\* C8: whenever applyTransaction returns an error (a failed predicate check
\* or a failed ApplyTransaction), env.state and env.gasPool are what they
\* were at the entry of the call and env.predicateResults has no entry for
\* the hash of the transaction
C8_FailedApplyRestores ==
    (wpc = "loop" /\ ApplyFailed) =>
        /\ env.state = last.env.state
        /\ env.gasPool = last.env.gasPool
        /\ last.tx.hash \notin env.predicateResults

\* post-Durango, an execution failed after writing to the state and taking
\* gas, with earlier transactions in the block
C8_Witness ==
    /\ wpc = "loop"
    /\ ApplyFailed
    /\ last.dirty
    /\ env.rules.IsDurango
    /\ env.predicateResults # {}
    /\ env.gasPool < env.header.GasLimit

\* C9: at the start of every iteration of commitTransactions and at
\* finalization len(env.txs) = len(env.receipts); a successful
\* commitTransaction (plain or blob) has appended exactly one entry to each,
\* a failed one none
C9_TxsMatchReceipts ==
    /\ wpc \in {"loop", "commit"} => Len(env.txs) = Len(env.receipts)
    /\ (wpc = "loop" /\ last.called) =>
          IF last.err = "nil"
          THEN /\ Hashes(env.txs) = Append(Hashes(last.env.txs), last.tx.hash)
               /\ Len(env.receipts) = Len(last.env.receipts) + 1
               /\ SubSeq(env.receipts, 1, Len(last.env.receipts)) = last.env.receipts
               /\ env.receipts[Len(env.receipts)].TxHash = last.tx.hash
          ELSE /\ env.txs = last.env.txs
               /\ env.receipts = last.env.receipts

\* a plain and a blob transaction are in the block and the last call failed
C9_Witness ==
    /\ wpc = "loop"
    /\ last.called
    /\ last.err # "nil"
    /\ Len(env.txs) >= 2
    /\ env.size > 0
    /\ env.blobs > 0

\* C10: at the start of every iteration of commitTransactions, in the local
\* and in the remote pass, env.blobs * BlobTxBlobGasPerBlob is at most
\* MaxBlobGasPerBlock
C10_BlobsWithinLimit ==
    wpc = "loop" => env.blobs * BlobTxBlobGasPerBlob <= MaxBlobGasPerBlock

\* the remote pass brings the blobs of the block to the limit the local pass
\* began to fill
C10_Witness ==
    /\ wpc = "loop"
    /\ pass = "remote"
    /\ env.blobs * BlobTxBlobGasPerBlob = MaxBlobGasPerBlock
    /\ \E i \in 1..Len(env.sidecars) : env.sidecars[i] = "b1"

\* C11: when commit is reached env.size is at most targetTxsSize; a
\* transaction that would take env.size above the target is not admitted
C11_SizeWithinTarget ==
    /\ wpc = "commit" => env.size <= targetTxsSize
    /\ (wpc = "loop" /\ last.called /\ last.err = "nil") =>
          last.env.size + last.tx.size <= targetTxsSize

\* commit is reached with transactions in the block and a sender popped for
\* the size of its transaction
C11_Witness ==
    /\ wpc = "commit"
    /\ env.size > 0
    /\ \E p \in observed.popped : p.reason = "size"

(***************************************************************************)
(* Properties of nextRequestID.                                            *)
(***************************************************************************)
\* C12 as stated: every id nextRequestID returns is even and greater than
\* the id before it, for every number of calls
C12_EvenAndMonotonic ==
    issued.last # NoID =>
        /\ issued.last % 2 = 0
        /\ issued.prev # NoID => issued.last > issued.prev

\* C12: every id nextRequestID returns is even and is the id before it plus
\* two modulo the width of the counter: greater than the id before it except
\* where the counter wraps from its highest even value to 0
C12_EvenAndMonotonicUntilWrap ==
    issued.last # NoID =>
        /\ issued.last % 2 = 0
        /\ issued.prev # NoID =>
              /\ issued.last = (issued.prev + 2) % (2 ^ RequestIDBits)
              /\ \/ issued.last > issued.prev
                 \/ (issued.prev = 2 ^ RequestIDBits - 2 /\ issued.last = 0)

\* the counter has wrapped
C12_Witness ==
    /\ issued.prev = 2 ^ RequestIDBits - 2
    /\ issued.last = 0

(***************************************************************************)
(* Properties of the sends.                                                *)
(***************************************************************************)
Sends == {"SendAppRequest", "SendAppRequestAny"}

\* C13: when AppSender.SendAppRequest returns an error inside SendAppRequest
\* or SendAppRequestAny, the call returns that error, releases the permit it
\* acquired and removes the handler it registered for the new id:
\* outstandingRequestHandlers is as before the call and one permit fewer is
\* held than when the call took the lock
C13_DispatchErrorUndone ==
    [][\A t \in Threads :
          (thread[t].pc = "lock" /\ thread'[t].ret = "sendErr") =>
              /\ thread'[t].pc = "done"
              /\ outstandingRequestHandlers' = outstandingRequestHandlers
              /\ thread'[t].requestID \notin DOMAIN outstandingRequestHandlers'
              /\ thread'[t].requestID \in DOMAIN registered'
              /\ sentRequests' = sentRequests
              /\ released' = released + 1
              /\ acquired' = acquired]_vars

\* a send failed after an earlier request was registered and fulfilled
C13_Witness ==
    \E t \in Threads :
        /\ thread[t].op \in Sends
        /\ thread[t].ret = "sendErr"
        /\ thread[t].requestID \in DOMAIN registered
        /\ PermitsHeld = 0
        /\ released >= 2

\* C14: SendAppRequestAny dispatches only to a peer that
\* peers.GetAnyPeer(minVersion) returns; when no connected peer has a version
\* of at least minVersion it returns an error, releases the permit it
\* acquired, registers no handler and sends nothing
C14_AnyPeerOrError ==
    [][\A t \in Threads :
          (/\ thread[t].pc = "lock"
           /\ thread[t].op = "SendAppRequestAny"
           /\ thread'[t].pc = "done") =>
              IF GetAnyPeer(thread[t].minVersion) = {}
              THEN /\ thread'[t].ret = "noPeers"
                   /\ released' = released + 1
                   /\ acquired' = acquired
                   /\ outstandingRequestHandlers' = outstandingRequestHandlers
                   /\ registered' = registered
                   /\ sentRequests' = sentRequests
                   /\ trackedPeers' = trackedPeers
                   /\ requestIDGen' = requestIDGen
              ELSE /\ thread'[t].ret # "noPeers"
                   /\ trackedPeers' \subseteq
                          trackedPeers \cup GetAnyPeer(thread[t].minVersion)
                   /\ sentRequests' # sentRequests =>
                          /\ trackedPeers' \cap GetAnyPeer(thread[t].minVersion) # {}
                          /\ thread'[t].ret = "nil"]_vars

\* SendAppRequestAny found no peer although one is connected: its version is
\* below minVersion
C14_Witness ==
    \E t \in Threads :
        /\ thread[t].op = "SendAppRequestAny"
        /\ thread[t].ret = "noPeers"
        /\ DOMAIN peers # {}
        /\ PermitsHeld = 0
        /\ ~closed

(***************************************************************************)
(* Properties of the commit loop.                                          *)
(***************************************************************************)
\* the heads of the senders' lists in a merger
HeadsOf(m) == {Head(m[a]) : a \in Heads(m)}

\* the first transaction of its sender in the pool
FirstOfSender(tx) ==
    \/ (PoolPlain[tx.from] # <<>> /\ Head(PoolPlain[tx.from]) = tx)
    \/ (PoolBlob[tx.from] # <<>> /\ Head(PoolBlob[tx.from]) = tx)

\* C15: an iteration of commitTransactions that selects a transaction
\* selects the head with the highest tip among the heads of the plain and
\* the blob merger: the plain head when its tip is at least the blob head's,
\* the blob head when the plain tip is lower, the other merger when one is
\* empty; so of the first transactions of two senders of one pass, the one
\* with the higher tip comes first in env.txs
C15_HighestTipSelected ==
    /\ wpc = "loop" =>
          \A resolved \in BOOLEAN :
              LET s == commitTransactionsSelect(env, plainTxs, blobTxs, resolved,
                                                chainConfig.IsEIP155)
                  P == HeadsOf(plainTxs)
                  B == IF s.cleared THEN {} ELSE HeadsOf(blobTxs)
              IN  IF s.step = "break"
                  THEN env.gasPool < TxGas \/ P \cup B = {}
                  ELSE /\ s.tx \in (IF s.which = "plain" THEN P ELSE B)
                       /\ \A h \in P \cup B : h.tip <= s.tx.tip
                       /\ s.which = "blob" => \A h \in P : h.tip < s.tx.tip
                       /\ P = {} => s.which = "blob"
                       /\ B = {} => s.which = "plain"
    /\ \A i, j \in 1..Len(env.txs) :
          LET ti == TxByHash(env.txs[i].hash)
              tj == TxByHash(env.txs[j].hash)
          IN  (/\ i < j
               /\ ti.from # tj.from
               /\ FirstOfSender(ti)
               /\ FirstOfSender(tj)
               /\ (ti.from \in observed.locals) = (tj.from \in observed.locals))
              => ti.tip >= tj.tip

\* a plain and a blob head of equal tips are at the top of their mergers and
\* an earlier transaction is in the block
C15_Witness ==
    /\ wpc = "loop"
    /\ env.gasPool >= TxGas
    /\ Len(env.txs) >= 1
    /\ ~Empty(plainTxs)
    /\ ~Empty(blobTxs)
    /\ Peek(plainTxs).tip = Peek(blobTxs).tip
    /\ env.blobs * BlobTxBlobGasPerBlob < MaxBlobGasPerBlock

\* the merger the transaction being executed came from
CurTxs == IF cur.which = "plain" THEN plainTxs ELSE blobTxs

\* C16: in commitTransactions an execution that fails with ErrNonceTooLow
\* is followed by Shift (that transaction alone is skipped, the next one of
\* its sender stays eligible), a successful one by env.tcount + 1 and Shift,
\* any other error by Pop of the sender; a sender's valid transaction after
\* a stale one is admitted
C16_ShiftOrPopOnResult ==
    [][wpc = "execute" =>
         LET a     == cur.tx.from
             after == IF cur.which = "plain" THEN plainTxs' ELSE blobTxs'
         IN  /\ CurTxs[a] # <<>>
             /\ Head(CurTxs[a]) = cur.tx
             /\ \A b \in Accounts \ {a} : after[b] = CurTxs[b]
             /\ cur.which = "plain" => blobTxs' = blobTxs
             /\ cur.which = "blob" => plainTxs' = plainTxs
             /\ IF last'.err = "ErrNonceTooLow"
                THEN /\ after[a] = Tail(CurTxs[a])
                     /\ env'.tcount = env.tcount
                     /\ env'.txs = env.txs
                ELSE IF last'.err = "nil"
                THEN /\ after[a] = Tail(CurTxs[a])
                     /\ env'.tcount = env.tcount + 1
                     /\ Hashes(env'.txs) = Append(Hashes(env.txs), cur.tx.hash)
                ELSE /\ after[a] = <<>>
                     /\ env'.tcount = env.tcount
                     /\ env'.txs = env.txs]_vars

\* sender 1 has the stale p1 and then p2: the block holds p2 alone
C16_Witness ==
    /\ wpc = "commit"
    /\ Hashes(env.txs) = <<"p2">>
    /\ env.tcount = 1

\* the senders whose head was rejected with Pop in the running pass
PoppedInPass == {p.from : p \in {q \in observed.popped : q.pass = pass}}

\* C17: once the head of a sender was rejected with Pop in a pass of
\* commitTransactions (gas, blob gas, unresolved, size, replay protection
\* or an execution error other than nonce-too-low), that sender has no
\* transaction left in the mergers of the pass, none is selected and none
\* is appended to env.txs in the rest of the pass
C17_PoppedSenderNotAdmitted ==
    [][/\ wpc \in {"loop", "execute"}
          => \A a \in PoppedInPass :
                /\ plainTxs[a] = <<>> /\ blobTxs[a] = <<>>
                /\ plainTxs'[a] = <<>> /\ blobTxs'[a] = <<>>
                /\ cur.tx.from # a /\ cur'.tx.from # a
       /\ env'.txs # env.txs
          => /\ wpc = "execute"
             /\ Hashes(env'.txs) = Append(Hashes(env.txs), cur.tx.hash)
             /\ cur.tx.from \notin PoppedInPass]_vars

\* a sender was popped with a transaction queued behind the rejected one,
\* and a transaction of another sender was admitted later in the pass
C17_Witness ==
    /\ wpc = "loop"
    /\ last.called /\ last.err = "nil"
    /\ \E p \in observed.popped :
          /\ p.pass = pass
          /\ p.behind > 0
          /\ last.tx.from # p.from
          /\ TxByHash(last.tx.hash).tip < Head(PoolPlain[p.from] \o PoolBlob[p.from]).tip

\* no blob space is left for any further blob transaction
BlobSpaceExhausted == env.blobs * BlobTxBlobGasPerBlob >= MaxBlobGasPerBlock

\* C18: an iteration of commitTransactions that finds the blob merger
\* non-empty with env.blobs * BlobTxBlobGasPerBlob >= MaxBlobGasPerBlock
\* clears the blob merger and goes on: the head of the plain merger, if
\* any, is the transaction considered; after the Clear no blob transaction
\* is selected or admitted in that pass
C18_BlobsClearedPlainGoOn ==
    [][/\ (wpc = "loop" /\ env.gasPool >= TxGas /\ ~Empty(blobTxs)
           /\ BlobSpaceExhausted)
          => /\ pass \in observed'.cleared
             /\ pass' = pass => Empty(blobTxs')
             /\ IF Empty(plainTxs)
                THEN wpc' = "commit" \/ pass' # pass
                ELSE /\ pass' = pass
                     /\ \/ /\ wpc' = "execute"
                           /\ cur' = [which |-> "plain", tx |-> Peek(plainTxs)]
                           /\ plainTxs' = plainTxs
                        \/ /\ wpc' = "loop"
                           /\ plainTxs' = Pop(plainTxs)
                           /\ observed'.popped # observed.popped
       /\ (wpc \in {"loop", "execute"} /\ pass \in observed.cleared)
          => /\ Empty(blobTxs)
             /\ cur.which # "blob"
             /\ pass' = pass => Empty(blobTxs') /\ cur'.which # "blob"
             /\ env'.txs # env.txs => TxByHash(cur.tx.hash).type # "blob"]_vars

\* the blob merger was cleared with a blob transaction still queued, and a
\* plain transaction was admitted afterwards in the same pass
C18_Witness ==
    /\ pass \in observed.cleared
    /\ wpc = "loop"
    /\ last.called /\ last.err = "nil"
    /\ last.env.blobs * BlobTxBlobGasPerBlob >= MaxBlobGasPerBlock
    /\ last.tx.type # "blob"
    /\ env.txs[Len(env.txs)].hash = last.tx.hash

\* the transaction at position i of the block comes from a local account
IsLocalAt(txs, i) == TxByHash(txs[i].hash).from \in observed.locals

\* C19: in env.txs every admitted transaction of a local account precedes
\* every admitted transaction of a remote account, and the pass over the
\* remote accounts starts from the environment (gas pool, size, blob
\* count) the pass over the local accounts left
C19_LocalsBeforeRemotes ==
    [][/\ \A i \in 1..Len(env'.txs) : \A j \in 1..Len(env'.txs) :
             (i < j /\ IsLocalAt(env'.txs, j)) => IsLocalAt(env'.txs, i)
       /\ (pass = "local" /\ pass' = "remote")
          => /\ env' = env
             /\ plainTxs' = newTransactionsByPriceAndNonce(remoteTxs.plain)
             /\ blobTxs' = newTransactionsByPriceAndNonce(remoteTxs.blob)
       /\ (pass = "local" /\ env'.txs # env.txs)
          => IsLocalAt(env'.txs, Len(env'.txs))
       /\ (pass = "remote" /\ env'.txs # env.txs)
          => ~IsLocalAt(env'.txs, Len(env'.txs))]_vars

\* a remote transaction was admitted after a local one, the local pass
\* having used gas and blob space
C19_Witness ==
    /\ pass = "remote"
    /\ Len(env.txs) >= 2
    /\ IsLocalAt(env.txs, 1)
    /\ ~IsLocalAt(env.txs, Len(env.txs))
    /\ env.blobs > 0
    /\ last.called /\ last.err = "nil"
    /\ last.env.gasPool < env.header.GasLimit

\* C20: AppRequest on a decodable request computes bufferedDeadline as the
\* time.Now() it reads plus half of the time until the deadline; when the
\* time until bufferedDeadline is below 100 ms the request is dropped (the
\* deadline-dropped metric goes up by one, no handler runs, no response is
\* sent, nil is returned), otherwise the handler runs under a context
\* whose deadline is bufferedDeadline
C20_BufferedDeadline ==
    [][\A t \in Threads :
         (thread[t].pc = "handleRequest" /\ thread'[t].request.decodable)
         => LET q    == thread'[t].request
                ttd  == q.timeTillDeadline
                half == CHOOSE h \in -200..200 :
                           IF ttd >= 0 THEN 2 * h <= ttd /\ ttd < 2 * h + 2
                           ELSE 2 * h >= ttd /\ ttd > 2 * h - 2
            IN  IF half - q.elapsed < 100
                THEN /\ inbound'.dropped = inbound.dropped + 1
                     /\ inbound'.requestHandled = inbound.requestHandled
                     /\ inbound'.responsesSent = inbound.responsesSent
                     /\ q.handleCtx = NoDeadline
                     /\ thread'[t].ret = "nil"
                ELSE /\ inbound'.dropped = inbound.dropped
                     /\ inbound'.requestHandled = inbound.requestHandled + 1
                     /\ q.handleCtx = half]_vars

\* a request 200 ms before its deadline was dropped because a millisecond
\* passed between the two reads of the clock
C20_Witness ==
    \E t \in Threads :
        /\ thread[t].op = "AppRequest" /\ thread[t].pc = "done"
        /\ thread[t].request.decodable
        /\ thread[t].request.timeTillDeadline = 200
        /\ thread[t].request.elapsed = 1
        /\ thread[t].request.handleCtx = NoDeadline
        /\ inbound.dropped = 1
        /\ inbound.requestHandled = 0

\* C21: AppRequest returns a fatal error exactly when the request handler
\* returned an error other than context.DeadlineExceeded or
\* AppSender.SendAppResponse failed; DeadlineExceeded from the handler is
\* not returned; SendAppResponse is called only with non-nil response bytes
C21_FatalErrors ==
    \A t \in Threads :
        (thread[t].op = "AppRequest" /\ thread[t].pc = "done")
        => LET q == thread[t].request
           IN  /\ (thread[t].ret = "fatal")
                     <=> \/ q.handlerErr \notin {"nil", "DeadlineExceeded"}
                         \/ q.sendAppResponse = "error"
               /\ q.sendAppResponse # "none" => q.responseBytes # "nil"

\* an undecodable request was forwarded and the error of the fallback
\* router came back from AppRequest, no handler having run
C21_ForwardedRequestFatal ==
    \E t \in Threads :
        /\ thread[t].op = "AppRequest" /\ thread[t].pc = "done"
        /\ ~thread[t].request.decodable
        /\ inbound.requestForwarded = 1
        /\ inbound.requestHandled = 0
        /\ thread[t].ret = "fatal"

\* C22: AppRequest and AppGossip hand a payload the codec cannot decode,
\* unchanged, to the fallback router n.p2pNetwork and run no registered
\* handler on it; a payload that decodes is not handed to the router
C22_UndecodableForwarded ==
    [][\A t \in Threads :
         LET q == thread'[t].request
         IN  /\ (thread[t].pc = "handleRequest" /\ thread'[t].pc = "done")
                => IF Unmarshal(q.bytes)
                   THEN /\ q.routed = "none"
                        /\ inbound'.requestForwarded = inbound.requestForwarded
                   ELSE /\ q.routed = q.bytes
                        /\ inbound'.requestForwarded = inbound.requestForwarded + 1
                        /\ inbound'.requestHandled = inbound.requestHandled
                        /\ inbound'.responsesSent = inbound.responsesSent
                        /\ inbound'.dropped = inbound.dropped
                        /\ q.handleCtx = NoDeadline
                        /\ q.sendAppResponse = "none"
             /\ (thread[t].pc = "idle" /\ thread'[t].op = "AppGossip")
                => IF Unmarshal(q.bytes)
                   THEN /\ q.routed = "none"
                        /\ inbound'.gossipForwarded = inbound.gossipForwarded
                        /\ inbound'.gossipHandled = inbound.gossipHandled + 1
                   ELSE /\ q.routed = q.bytes
                        /\ inbound'.gossipForwarded = inbound.gossipForwarded + 1
                        /\ inbound'.gossipHandled = inbound.gossipHandled]_vars

\* an undecodable gossip payload went to the fallback router
C22_Witness ==
    \E t \in Threads :
        /\ thread[t].op = "AppGossip" /\ thread[t].pc = "done"
        /\ thread[t].request.bytes = "x2"
        /\ thread[t].request.routed = "x2"
        /\ inbound.gossipForwarded = 1
        /\ inbound.gossipHandled = 0

\* C23: the peers the tracker of the network holds, those connected and
\* those inserted by TrackPeer, never include the node's own id
C23_PeersExcludeSelf ==
    /\ Self \notin DOMAIN peers
    /\ Self \notin trackedPeers

\* a request addressed to the node's own id was dispatched: the tracker
\* holds self, which is not among the connected peers
C23_SelfTracked ==
    /\ Self \in trackedPeers
    /\ Self \notin DOMAIN peers
    /\ ~closed

\* the larger of two times
MaxTime(a, b) == IF a >= b THEN a ELSE b

\* C24: the header commitNewWork builds has number = parent.number + 1 and
\* timestamp = max(clock time in unix seconds, parent.time): the timestamp
\* of the new block is never below its parent's
C24_HeaderNumberAndTime ==
    observed.built.header # NoHeader
    => LET b == observed.built
       IN  /\ b.header.Number = b.parent.Number + 1
           /\ b.header.Time = MaxTime(b.unix, b.parent.Time)
           /\ b.header.Time >= b.parent.Time
           /\ b.header.ParentHash = b.parent.Hash

\* the clock is behind the parent: the header takes the parent's time
C24_Witness ==
    /\ observed.built.header # NoHeader
    /\ observed.built.unix < observed.built.parent.Time
    /\ observed.built.header.Time = observed.built.parent.Time
    /\ observed.built.parent.Number > 0

RECURSIVE Queued(_, _)
\* the lazy transactions the merger txs holds for the accounts in as
Queued(txs, as) ==
    IF as = {} THEN 0
    ELSE LET a == CHOOSE x \in as : TRUE
         IN  Len(txs[a]) + Queued(txs, as \ {a})

\* the lazy transactions left to a pass of commitTransactions
Remaining == Queued(plainTxs, Accounts) + Queued(blobTxs, Accounts)

\* C25: every iteration of commitTransactions breaks or takes at least one
\* lazy transaction out of the plain or the blob merger (Shift one, Pop the
\* sender's whole list), and nothing is ever put back: a pass runs at most
\* one iteration per pending transaction, plus the one that breaks
C25_IterationsConsume ==
    [][/\ (wpc = "loop" /\ wpc' = "loop" /\ pass' = pass)
          => Remaining' < Remaining
       /\ (wpc = "loop" /\ wpc' = "execute")
          => /\ Remaining' <= Remaining
             /\ Remaining' > 0
       /\ wpc = "execute"
          => /\ wpc' = "loop"
             /\ Remaining' < Remaining
       /\ (wpc = "loop" /\ wpc' = "commit")
          => Remaining' <= Remaining
       /\ (wpc = "loop" /\ Remaining = 0)
          => (wpc' = "commit" \/ pass' # pass)]_vars

\* the passes are over: a Pop took a sender with a transaction queued
\* behind its head, one transaction was admitted, no merger holds any
C25_Witness ==
    /\ wpc = "commit"
    /\ Remaining = 0
    /\ env.tcount = 1
    /\ \E p \in observed.popped : p.behind = 1

\* C26: whenever closed is set outstandingRequestHandlers is empty, and
\* once it is set no SendAppRequest or SendAppRequestAny, however it
\* interleaves with Shutdown, registers a handler or sends a request
C26_ClosedHasNoOutstanding ==
    [][/\ closed' => outstandingRequestHandlers' = EmptyMap
       /\ closed => /\ closed'
                    /\ registered' = registered
                    /\ sentRequests' = sentRequests
                    /\ requestIDGen' = requestIDGen]_vars

\* a send that acquired its permit before Shutdown took the lock came to
\* the lock after it: it returned nil with its handler never registered
C26_Witness ==
    /\ closed
    /\ outstandingRequestHandlers = EmptyMap
    /\ \E t \in Threads :
          /\ thread[t].op \in Sends
          /\ thread[t].pc = "done"
          /\ thread[t].ret = "nil"
          /\ thread[t].handler # NoHandler
          /\ \A id \in DOMAIN registered : registered[id] # thread[t].handler

\* the handlers Shutdown failed
FailedByShutdown == {h \in Handlers : shutdownFailed[h] > 0}

C28_AccessesUnderLock ==
    /\ slots.unguarded = {}
    /\ slots.raced = {}

\* AppRequest read appRequestHandler without the lock while
\* SetRequestHandler, holding it, was about to store another handler
C28_RacingRead ==
    /\ "appRequestHandler" \in slots.raced
    /\ \E t \in Threads :
          /\ thread[t].op = "AppRequest" /\ thread[t].pc = "done"
          /\ thread[t].request.handlerRead = "h1"
          /\ slots.appRequestHandler = "h0"
    /\ \E u \in Threads :
          /\ thread[u].op = "SetRequestHandler" /\ thread[u].pc = "setHandler"
          /\ lock = u

\* the ids whose response or failure went, or is going, to p2pNetwork
ForwardedIDs ==
    DOMAIN forwarded
    \cup {thread[t].requestID : t \in {u \in Threads : thread[u].pc = "forward"}}

\* C29: the handler is registered under the request id before
\* AppSender.SendAppRequest is invoked and the send is made under the
\* lock: a response or failure the send causes always finds the handler,
\* unless the request was fulfilled before or Shutdown failed it
C29_RegisteredBeforeSend ==
    /\ \A t \in Threads :
          thread[t].pc \in {"send", "sent", "sendFailed"} => lock = t
    /\ \A t \in Threads :
          thread[t].pc \in {"send", "sent"}
          => /\ thread[t].requestID \in DOMAIN outstandingRequestHandlers
             /\ outstandingRequestHandlers[thread[t].requestID] = thread[t].handler
    /\ \A id \in ForwardedIDs :
          \/ id \in DOMAIN fulfilled
          \/ id \in DOMAIN registered /\ registered[id] \in FailedByShutdown

\* the bus delivered the response of a request and then its failure: the
\* first found the handler, the second was forwarded
C29_Witness ==
    \E id \in DOMAIN forwarded :
        /\ id \in DOMAIN fulfilled
        /\ id \in sentRequests
        /\ onResponse[registered[id]] = 1
        /\ ~closed

RECURSIVE SizeOf(_)
\* the sizes of the transactions of txs added up
SizeOf(txs) ==
    IF txs = <<>> THEN 0 ELSE TxByHash(Head(txs).hash).size + SizeOf(Tail(txs))

\* C30: at every loop boundary of commitTransactions env.size is the sum of
\* the sizes of the transactions admitted so far, plain and blob alike
C30_SizeIsSumOfAdmitted ==
    wpc \in {"loop", "commit", "done"} => env.size = SizeOf(env.txs)

\* a blob transaction was admitted and env.size did not grow
C30_BlobNotCounted ==
    /\ wpc = "loop"
    /\ last.called /\ last.err = "nil"
    /\ last.tx.type = "blob"
    /\ Hashes(env.txs) = Append(Hashes(last.env.txs), last.tx.hash)
    /\ env.size = last.env.size
    /\ last.tx.size > 0

(***************************************************************************)
(* Properties of a failed admission.                                       *)
(***************************************************************************)
\* what commitTransaction must leave alone when it fails
Admitted(e) ==
    <<e.txs, e.receipts, e.sidecars, e.blobs, e.size, e.tcount,
      e.header.BlobGasUsed>>

\* C31: a commitTransaction that fails (plain or blob path, the rejection
\* "max data blobs reached" included) leaves env.txs, env.receipts,
\* env.sidecars, env.blobs, env.size, env.tcount and header.BlobGasUsed as
\* they were, and the gas pool and the state as well: for the call the loop
\* made last, and for a call with any transaction of the pool in the
\* environment the loop has built
C31_FailedCommitLeavesEnv ==
    /\ (wpc = "loop" /\ last.called /\ last.err # "nil") =>
          /\ Admitted(env) = Admitted(last.env)
          /\ env.gasPool = last.env.gasPool
          /\ env.state = last.env.state
    /\ wpc = "loop" =>
          \A tx \in PoolTxs : \A o \in Outcomes(env.rules.IsDurango, tx) :
              LET r == commitTransaction(env, tx, o)
              IN  r.err # "nil" =>
                      /\ Admitted(r.env) = Admitted(env)
                      /\ r.env.gasPool = env.gasPool
                      /\ r.env.state = env.state

\* a blob transaction failed in its execution, after writing to the state,
\* in a block that holds blobs and plain transactions already, and a call
\* with a transaction of the pool would be rejected for its blobs
C31_Witness ==
    /\ wpc = "loop"
    /\ last.called
    /\ last.tx.type = "blob"
    /\ last.err = "error"
    /\ last.dirty
    /\ env.blobs > 0
    /\ env.size > 0
    /\ \E tx \in PoolTxs : \E o \in Outcomes(env.rules.IsDurango, tx) :
          commitTransaction(env, tx, o).err = "max data blobs reached"

(***************************************************************************)
(* Properties of the gas pool.                                             *)
(***************************************************************************)
\* C32: an iteration of commitTransactions that finds less than TxGas in
\* the gas pool ends the pass without touching the environment or a
\* merger's sender; a transaction goes to execution only if its gas is at
\* most the gas in the pool when it was selected; and over every step of
\* the loop the gas pool does not grow
C32_GasBudget ==
    [][/\ (wpc = "loop" /\ env.gasPool < TxGas) =>
             /\ wpc' # "execute"
             /\ pass' # pass
             /\ env' = env
             /\ observed'.popped = observed.popped
       /\ (wpc = "loop" /\ wpc' = "execute") =>
             /\ env.gasPool >= TxGas
             /\ LazyGas(cur'.tx) <= env.gasPool
       /\ wpc \in {"loop", "execute"} => env'.gasPool <= env.gasPool]_vars

\* the loop has ended with the pool short of TxGas, transactions in the
\* block and transactions still queued
C32_Witness ==
    /\ wpc = "commit"
    /\ env.gasPool < TxGas
    /\ Len(env.txs) >= 1
    /\ (~Empty(plainTxs) \/ ~Empty(blobTxs))

(***************************************************************************)
(* Properties of the sidecars.                                             *)
(***************************************************************************)
\* len(sc.Blobs) of a sidecar
SidecarBlobs(sc) == TxByHash(sc).blobs

RECURSIVE BlobsOf(_)
\* the blobs of a list of sidecars
BlobsOf(sidecars) ==
    IF sidecars = <<>> THEN 0
    ELSE SidecarBlobs(Head(sidecars)) + BlobsOf(Tail(sidecars))

\* the positions of env.txs that hold a blob transaction
BlobPositions(txs) ==
    {i \in 1..Len(txs) : TxByHash(txs[i].hash).type = "blob"}

\* C33: at every loop boundary and at finalization every blob transaction
\* in env.txs is stored without its sidecar, env.sidecars has as many
\* entries as env.txs has blob transactions, and env.blobs is the number
\* of blobs of the sidecars in env.sidecars
C33_SidecarsKeptAside ==
    wpc \in {"loop", "commit"} =>
        /\ \A i \in BlobPositions(env.txs) : env.txs[i].sidecar = "nil"
        /\ Len(env.sidecars) = Cardinality(BlobPositions(env.txs))
        /\ env.blobs = BlobsOf(env.sidecars)

\* the block holds a plain transaction and two blob transactions with
\* sidecars of different sizes
C33_Witness ==
    /\ wpc = "loop"
    /\ Len(env.sidecars) >= 2
    /\ Len(env.txs) > Len(env.sidecars)
    /\ SidecarBlobs(env.sidecars[1]) # SidecarBlobs(env.sidecars[2])

(***************************************************************************)
(* Properties of the transaction index.                                    *)
(***************************************************************************)
\* C39: at every loop boundary of commitTransactions, in the local and in
\* the remote pass, and at finalization env.tcount = len(env.txs); the
\* index SetTxContext is given for a transaction is the (0-based) position
\* the transaction takes in env.txs when it is admitted
C39_TcountIsLenTxs ==
    /\ wpc \in {"loop", "commit"} => env.tcount = Len(env.txs)
    /\ wpc = "execute" =>
          /\ env.state.thash = cur.tx.hash
          /\ env.state.txIndex = Len(env.txs)
    /\ (wpc = "loop" /\ last.called /\ last.err = "nil") =>
          /\ env.txs[last.env.state.txIndex + 1].hash = last.tx.hash
          /\ last.env.state.txIndex + 1 = Len(env.txs)

\* in the remote pass, after a stale and a failed transaction, a
\* transaction is admitted behind those of the local pass
C39_Witness ==
    /\ wpc = "loop"
    /\ pass = "remote"
    /\ last.called
    /\ last.err = "nil"
    /\ last.env.state.txIndex >= 1
    /\ IsLocalAt(env.txs, 1)
    /\ \E q \in observed.popped : q.reason = "error"

(***************************************************************************)
(* Properties of the exits of commitNewWork.                               *)
(***************************************************************************)
\* the returns of commitNewWork taken after createCurrentEnvironment
\* started the prefetcher, and those taken before
ExitsAfterStart == {"ApplyUpgrades", "FinalizeAndAssemble", "duplicate", "ok"}
ExitsBeforeStart == {"CalcBaseFee", "etherbase", "Prepare", "StateAt"}

\* C34: when commitNewWork has returned after the prefetcher was started
\* (upgrade-application error, finalize error, duplicate-block error,
\* success) StopPrefetcher was called on the state of the environment; when
\* it has returned before the environment was created no prefetcher was
\* started; while the build runs the prefetcher is started and not stopped
C34_PrefetcherStopped ==
    /\ wpc \in {"done", "failed"} =>
          \/ /\ observed.exit \in ExitsAfterStart
             /\ env.state.prefetcher = "stopped"
          \/ /\ observed.exit \in ExitsBeforeStart
             /\ env.state.prefetcher = "none"
    /\ wpc \in {"loop", "execute", "commit"} =>
          /\ observed.exit = "none"
          /\ env.state.prefetcher = "started"

\* the block assembled from two transactions was a duplicate
C34_Witness ==
    /\ wpc = "failed"
    /\ observed.exit = "duplicate"
    /\ Len(env.txs) >= 2
    /\ env.state.prefetcher = "stopped"

(***************************************************************************)
(* Properties of the worker's lock.                                        *)
(***************************************************************************)
\* C35 as stated: while commitNewWork creates the environment, commits
\* transactions and finalizes, it holds no read lock on the worker
C35_LockOnlyForSnapshot ==
    wpc \in {"loop", "execute", "commit"} => mu.readers = 0

\* transactions are being committed, commitNewWork holds its read lock and
\* a setEtherbase cannot take the write lock
C35_SetEtherbaseBlocked ==
    /\ wpc = "execute"
    /\ Len(env.txs) >= 1
    /\ mu.readers = 1
    /\ ~ENABLED setEtherbase

(***************************************************************************)
(* Properties of the sends after Shutdown.                                 *)
(***************************************************************************)
\* C36 as stated: once Shutdown has run, a SendAppRequest (non-empty nodeID)
\* that has reached activeAppRequests.Acquire does not block there for good:
\* a permit is free, or one is held by a call that will release it, or by
\* an outstanding request whose response will release it
C36_SendAfterShutdownAcquires ==
    \A t \in Threads :
        (closed /\ thread[t].op = "SendAppRequest" /\ thread[t].pc = "acquire") =>
            \/ PermitsHeld < MaxActiveAppRequests
            \/ PermitsInTransit > 0
            \/ Outstanding # {}

\* the network is closed, every permit is held for a request Shutdown
\* failed, no other call is running, and a SendAppRequest waits at Acquire:
\* only the cancellation of its context can end the call
C36_BlockedAfterShutdown ==
    /\ closed
    /\ lock = "none"
    /\ PermitsHeld = MaxActiveAppRequests
    /\ Outstanding = {}
    /\ \E h \in Handlers : shutdownFailed[h] > 0
    /\ \E t \in Threads :
          /\ thread[t].op = "SendAppRequest"
          /\ thread[t].pc = "acquire"
          /\ \A u \in Threads \ {t} : thread[u].pc = "idle"

\* C37 as stated: a SendAppRequest or SendAppRequestAny that has returned
\* nil has registered the handler it was given
C37_NilMeansRegistered ==
    \A t \in Threads :
        (thread[t].pc = "done" /\ thread[t].op \in Sends /\ thread[t].ret = "nil") =>
            \E id \in DOMAIN registered : registered[id] = thread[t].handler

\* a send called after Shutdown returned nil: its handler was never
\* registered, no request was sent for it and no callback was made
C37_AcceptedAndDropped ==
    /\ closed
    /\ \E t \in Threads :
          /\ thread[t].pc = "done"
          /\ thread[t].op \in Sends
          /\ thread[t].ret = "nil"
          /\ thread[t].requestID = NoID
          /\ \A id \in DOMAIN registered : registered[id] # thread[t].handler
          /\ onResponse[thread[t].handler] = 0
          /\ onFailure[thread[t].handler] = 0

(***************************************************************************)
(* Properties of the request ids in use.                                   *)
(***************************************************************************)
\* C38 as stated: the id sendAppRequest assigns to a new request is not the
\* id of a request still in outstandingRequestHandlers, also after the
\* counter has wrapped around
C38_FreshRequestID ==
    [][requestIDGen' # requestIDGen =>
          issued'.last \notin DOMAIN outstandingRequestHandlers]_vars

\* the counter has gone once around while the first request stayed
\* outstanding: its id was assigned again, its handler (1) was replaced by
\* the new one (2) without a callback, and two permits are held for the one
\* entry
C38_HandlerOverwritten ==
    /\ acquired = WrapSends
    /\ issued.last = 0
    /\ DOMAIN outstandingRequestHandlers = {0}
    /\ outstandingRequestHandlers[0] = 2
    /\ onResponse[1] = 0
    /\ onFailure[1] = 0
    /\ PermitsHeld = 2

====
